---- MODULE Spec2Model ----
(***************************************************************************)
(* Model of the aircraft-part generator of src/script.js: the parameter    *)
(* normalizer (validateParams), the text helpers it uses, the safety       *)
(* checker, and the event handlers that drive them.                        *)
(*                                                                         *)
(* Representation.                                                         *)
(*  - A JavaScript string is a sequence of one-character strings, so that  *)
(*    includes(), toLowerCase() and the regular expressions are computed   *)
(*    character by character.                                              *)
(*  - A JavaScript value is a record [k, n, s]: k is the type tag          *)
(*    ("undef", "null", "num", "nan", "str"), n the number, s the string.  *)
(*  - A JavaScript number is an integer counting hundredths (fixed point), *)
(*    so 25 ft = 7.62 m is exact.  N(x) is the literal x.  The format has  *)
(*    a least positive number, MIN_VALUE, as the double has (5e-324), and  *)
(*    a product that falls between two numbers is rounded to the nearest,  *)
(*    ties to even, as IEEE 754 rounds it.                                 *)
(*  - A parameter object is a function from Fields to values; an absent    *)
(*    key holds Undef.                                                     *)
(*  - The aerodynamic metrics are exact quotients n/d (or NaN, or an       *)
(*    infinity); fix() rounds them to thousandths.                         *)
(*                                                                         *)
(* Specifications.                                                         *)
(*  - SpecNormalize: validateParams on a raw record and a text, and again  *)
(*    on its own result.                                                   *)
(*  - SpecSafety: runSafetyChecks on a record.                             *)
(*  - SpecAero: the metrics of a wing and the three metric edits, on the   *)
(*    values the boxes show and on typed values.                           *)
(*  - SpecKernel: the kernel operations on a record the caller keeps.      *)
(*  - Spec: the page, its generate button and its preset chips.            *)
(*  - SpecPanel: the page, its preset chips and the boxes of the panel.    *)
(*  - SpecLive: Spec with every request sent eventually settled.          *)
(*  - SpecSession: requests, presets and every control of the panel, with  *)
(*    up to MaxEdits uses of the controls.                                 *)
(*  - SpecAirfoil: makeNaca4Shape on a code, a chord and a station count;  *)
(*    the lengths of the profile are counted in units of 1e-5.             *)
(***************************************************************************)
EXTENDS Integers, Sequences, FiniteSets, TLC

-----------------------------------------------------------------------------
(* JavaScript values *)

N(x) == 100 * x

Undef  == [k |-> "undef", n |-> 0, s |-> <<>>]
Null   == [k |-> "null",  n |-> 0, s |-> <<>>]
NaN    == [k |-> "nan",   n |-> 0, s |-> <<>>]
Num(n) == [k |-> "num",   n |-> n, s |-> <<>>]
Str(s) == [k |-> "str",   n |-> 0, s |-> s]

\* Number.MIN_VALUE: the least positive number
MIN_VALUE == Num(1)

\* n * 0.5, rounded to the nearest number, ties to even
Half(n) ==
    IF n % 2 = 0 THEN n \div 2
    ELSE IF (n \div 2) % 2 = 0 THEN n \div 2
    ELSE (n \div 2) + 1

Min(a, b) == IF a < b THEN a ELSE b
Max(a, b) == IF a > b THEN a ELSE b

-----------------------------------------------------------------------------
(* Characters and strings *)

UpperCase == <<"A","B","C","D","E","F","G","H","I","J","K","L","M",
               "N","O","P","Q","R","S","T","U","V","W","X","Y","Z">>
LowerCase == <<"a","b","c","d","e","f","g","h","i","j","k","l","m",
               "n","o","p","q","r","s","t","u","v","w","x","y","z">>
DigitChars == <<"0","1","2","3","4","5","6","7","8","9">>

IsUpper(c) == c \in {UpperCase[i] : i \in 1..26}
IsLower(c) == c \in {LowerCase[i] : i \in 1..26}
IsDigit(c) == c \in {"0","1","2","3","4","5","6","7","8","9"}
DigitVal(c) == CHOOSE d \in 0..9 : DigitChars[d + 1] = c
IsSpace(c) == c = " "
\* \w of the regular expressions
IsWordChar(c) == IsUpper(c) \/ IsLower(c) \/ IsDigit(c) \/ c = "_"

LowerChar(c) ==
    IF IsUpper(c) THEN LowerCase[CHOOSE i \in 1..26 : UpperCase[i] = c] ELSE c

\* String.prototype.toLowerCase
RECURSIVE toLowerCase(_)
toLowerCase(s) ==
    IF s = <<>> THEN <<>> ELSE <<LowerChar(Head(s))>> \o toLowerCase(Tail(s))

\* String.prototype.includes
Includes(s, sub) ==
    \E i \in 1..(Len(s) - Len(sub) + 1) : SubSeq(s, i, i + Len(sub) - 1) = sub

\* s.replace(/\D/g, '')
RECURSIVE StripNonDigits(_)
StripNonDigits(s) ==
    IF s = <<>> THEN <<>>
    ELSE IF IsDigit(Head(s)) THEN <<Head(s)>> \o StripNonDigits(Tail(s))
    ELSE StripNonDigits(Tail(s))

\* /^\d{4}$/.test(s)
IsFourDigits(s) == Len(s) = 4 /\ \A i \in 1..4 : IsDigit(s[i])

\* value of a run of decimal digits
RECURSIVE DigitsValue(_)
DigitsValue(s) ==
    IF s = <<>> THEN 0
    ELSE 10 * DigitsValue(SubSeq(s, 1, Len(s) - 1)) + DigitVal(s[Len(s)])

\* first position >= i that is past the end or holds no digit / no space
RECURSIVE DigitRunEnd(_, _)
DigitRunEnd(s, i) == IF i <= Len(s) /\ IsDigit(s[i]) THEN DigitRunEnd(s, i + 1) ELSE i
RECURSIVE SpaceRunEnd(_, _)
SpaceRunEnd(s, i) == IF i <= Len(s) /\ IsSpace(s[i]) THEN SpaceRunEnd(s, i + 1) ELSE i

RECURSIVE TrimLeft(_)
TrimLeft(s) == IF s # <<>> /\ IsSpace(Head(s)) THEN TrimLeft(Tail(s)) ELSE s
RECURSIVE TrimRight(_)
TrimRight(s) ==
    IF s # <<>> /\ IsSpace(s[Len(s)]) THEN TrimRight(SubSeq(s, 1, Len(s) - 1)) ELSE s

\* Number(string): blank is 0, a decimal literal (optional sign, digits,
\* optional fraction of one or two digits) is its value, any other text is
\* NaN.  (Longer fractions, exponents and hex literals do not occur among the
\* modelled values, which count hundredths.)
IsDigits(d) == d # <<>> /\ \A i \in 1..Len(d) : IsDigit(d[i])
DotAt(d) == IF \E i \in 1..Len(d) : d[i] = "." THEN CHOOSE i \in 1..Len(d) : d[i] = "." ELSE 0
Fraction(whole, frac) ==
    IF IsDigits(whole) /\ IsDigits(frac) /\ Len(frac) <= 2
    THEN Num(N(DigitsValue(whole)) + (IF Len(frac) = 1 THEN 10 ELSE 1) * DigitsValue(frac))
    ELSE NaN
Unsigned(d, dot) ==
    IF dot = 0 THEN (IF IsDigits(d) THEN Num(N(DigitsValue(d))) ELSE NaN)
    ELSE Fraction(SubSeq(d, 1, dot - 1), SubSeq(d, dot + 1, Len(d)))
Negated(v) == IF v.k = "num" THEN Num(-v.n) ELSE v
Literal(t) ==
    IF t = <<>> THEN Num(0)
    ELSE IF Head(t) = "-" THEN Negated(Unsigned(Tail(t), DotAt(Tail(t))))
    ELSE Unsigned(t, DotAt(t))
StringToNumber(s) == Literal(TrimRight(TrimLeft(s)))

\* String(n) of a number: the decimal digits, with the fraction when there is one
RECURSIVE NatToString(_)
NatToString(n) ==
    IF n < 10 THEN <<DigitChars[n + 1]>>
    ELSE NatToString(n \div 10) \o <<DigitChars[(n % 10) + 1]>>
NumberToString(n) ==
    LET a == IF n < 0 THEN -n ELSE n
        whole == NatToString(a \div 100)
        f == a % 100
        frac == IF f = 0 THEN <<>>
                ELSE IF f % 10 = 0 THEN <<".", DigitChars[(f \div 10) + 1]>>
                ELSE <<".", DigitChars[(f \div 10) + 1], DigitChars[(f % 10) + 1]>>
    IN  (IF n < 0 THEN <<"-">> ELSE <<>>) \o whole \o frac

\* Number(v)
Number(v) ==
    CASE v.k = "undef" -> NaN
      [] v.k = "null"  -> Num(0)
      [] v.k = "num"   -> v
      [] v.k = "nan"   -> NaN
      [] v.k = "str"   -> StringToNumber(v.s)

\* Number.isFinite(v): true of numbers only, no conversion
NumberIsFinite(v) == v.k = "num"

\* !v
Falsy(v) ==
    \/ v.k \in {"undef", "null", "nan"}
    \/ v.k = "num" /\ v.n = 0
    \/ v.k = "str" /\ v.s = <<>>

\* v <= c and v > c for a number c: v is converted with Number, and a
\* comparison with NaN is false
NumLessEq(x, c) == x.k = "num" /\ x.n <= c
NumGreater(x, c) == x.k = "num" /\ x.n > c
NumLess(x, c) == x.k = "num" /\ x.n < c
LessEq(v, c) == NumLessEq(Number(v), c)
Greater(v, c) == NumGreater(Number(v), c)
Less(v, c) == NumLess(Number(v), c)

-----------------------------------------------------------------------------
(* Text helpers *)

K_wing       == <<"w","i","n","g">>
K_airfoil    == <<"a","i","r","f","o","i","l">>
K_delta      == <<"d","e","l","t","a">>
K_swept      == <<"s","w","e","p","t">>
K_fuselage   == <<"f","u","s","e","l","a","g","e">>
K_body       == <<"b","o","d","y">>
K_tube       == <<"t","u","b","e">>
K_stabilizer == <<"s","t","a","b","i","l","i","z","e","r">>
K_tail       == <<"t","a","i","l">>
K_fin        == <<"f","i","n">>
K_rudder     == <<"r","u","d","d","e","r">>
K_naca       == <<"n","a","c","a">>

\* guessPartTypeFromText with the fuselage family tried before the wing family
guessPartTypeFromText_fuselageFirst(userInput) ==
    LET text == toLowerCase(userInput)
    IN  IF Includes(text, K_fuselage) \/ Includes(text, K_body) \/ Includes(text, K_tube)
        THEN Str(K_fuselage)
        ELSE IF Includes(text, K_wing) \/ Includes(text, K_airfoil)
                \/ Includes(text, K_delta) \/ Includes(text, K_swept)
        THEN Str(K_wing)
        ELSE IF Includes(text, K_stabilizer) \/ Includes(text, K_tail)
                \/ Includes(text, K_fin) \/ Includes(text, K_rudder)
        THEN Str(K_stabilizer)
        ELSE Null

\* guessPartTypeFromText without the 'rudder' keyword
guessPartTypeFromText_noRudder(userInput) ==
    LET text == toLowerCase(userInput)
    IN  IF Includes(text, K_wing) \/ Includes(text, K_airfoil)
           \/ Includes(text, K_delta) \/ Includes(text, K_swept)
        THEN Str(K_wing)
        ELSE IF Includes(text, K_fuselage) \/ Includes(text, K_body) \/ Includes(text, K_tube)
        THEN Str(K_fuselage)
        ELSE IF Includes(text, K_stabilizer) \/ Includes(text, K_tail)
                \/ Includes(text, K_fin)
        THEN Str(K_stabilizer)
        ELSE Null

guessPartTypeFromText(userInput) ==
    LET text == toLowerCase(userInput)
    IN  IF Includes(text, K_wing) \/ Includes(text, K_airfoil)
           \/ Includes(text, K_delta) \/ Includes(text, K_swept)
        THEN Str(K_wing)
        ELSE IF Includes(text, K_fuselage) \/ Includes(text, K_body) \/ Includes(text, K_tube)
        THEN Str(K_fuselage)
        ELSE IF Includes(text, K_stabilizer) \/ Includes(text, K_tail)
                \/ Includes(text, K_fin) \/ Includes(text, K_rudder)
        THEN Str(K_stabilizer)
        ELSE Null

\* the unit alternatives of parseSizeFromText, each followed by \b
MeterUnits == {<<"m">>, <<"m","e","t","e","r">>, <<"m","e","t","e","r","s">>}
FeetUnits  == {<<"f","t">>, <<"f","e","e","t">>, <<"f","o","o","t">>}

UnitAt(t, q, u) ==
    /\ q + Len(u) - 1 <= Len(t)
    /\ SubSeq(t, q, q + Len(u) - 1) = u
    /\ (q + Len(u) > Len(t) \/ ~IsWordChar(t[q + Len(u)]))

\* One attempt of /(\d+(?:\.\d+)?)\s*(m|meter|meters|ft|feet|foot)\b/ at
\* position i, the number ending before position p (with or without the
\* fraction).  The digit and space runs are taken whole: a shorter run is
\* followed by a digit or a space, where no unit starts.
UnitFrom(t, q) ==
    IF \E u \in MeterUnits : UnitAt(t, q, u) THEN "m"
    ELSE IF \E u \in FeetUnits : UnitAt(t, q, u) THEN "ft"
    ELSE "none"
SizeTail(t, p) == UnitFrom(t, SpaceRunEnd(t, p))

\* the fraction digits, to the hundredths the numbers are counted in
FractionDigits(d) == IF Len(d) = 1 THEN 10 * DigitsValue(d) ELSE DigitsValue(d)

\* the number t[i..e-1] with the fraction t[e+1..f-1]
SizeWithFraction(t, i, e, f) ==
    IF SizeTail(t, f) # "none"
    THEN [unit |-> SizeTail(t, f),
          val |-> N(DigitsValue(SubSeq(t, i, e - 1)))
                  + FractionDigits(SubSeq(t, e + 1, Min(f - 1, e + 2)))]
    ELSE [unit |-> SizeTail(t, e), val |-> N(DigitsValue(SubSeq(t, i, e - 1)))]

SizeFromDigits(t, i, e) ==
    IF e + 1 <= Len(t) /\ t[e] = "." /\ IsDigit(t[e + 1])
    THEN SizeWithFraction(t, i, e, DigitRunEnd(t, e + 1))
    ELSE [unit |-> SizeTail(t, e), val |-> N(DigitsValue(SubSeq(t, i, e - 1)))]

SizeMatchAt(t, i) ==
    IF ~IsDigit(t[i]) THEN [unit |-> "none", val |-> 0]
    ELSE SizeFromDigits(t, i, DigitRunEnd(t, i))

\* the leftmost position >= i where the expression matches
RECURSIVE FirstSizeMatch(_, _)
FirstSizeMatchFrom(t, i, m) == IF m.unit # "none" THEN m ELSE FirstSizeMatch(t, i + 1)
FirstSizeMatch(t, i) ==
    IF i > Len(t) THEN [unit |-> "none", val |-> 0]
    ELSE FirstSizeMatchFrom(t, i, SizeMatchAt(t, i))

\* validateParams.parseSizeFromText: first number+unit of the text, in meters
SizeInMeters(m) ==
    IF m.unit = "none" THEN Null
    ELSE IF m.unit = "ft" THEN Num((m.val * 3048) \div 10000)  \* val * 0.3048
    ELSE Num(m.val)
parseSizeFromText(t) == SizeInMeters(FirstSizeMatch(t, 1))

\* One attempt of /naca\s*[-\s]*(\d{4})/i at position i: the captured
\* digits, or <<>>.
IsNacaSep(c) == IsSpace(c) \/ c = "-"
RECURSIVE NacaSepEnd(_, _)
NacaSepEnd(t, j) == IF j <= Len(t) /\ IsNacaSep(t[j]) THEN NacaSepEnd(t, j + 1) ELSE j
NacaDigitsAt(t, j) ==
    IF j + 3 <= Len(t) /\ \A y \in j..(j + 3) : IsDigit(t[y])
    THEN SubSeq(t, j, j + 3) ELSE <<>>
NacaMatchAt(t, i) ==
    IF i + 3 <= Len(t) /\ toLowerCase(SubSeq(t, i, i + 3)) = K_naca
    THEN NacaDigitsAt(t, NacaSepEnd(t, i + 4))
    ELSE <<>>

RECURSIVE FirstNacaMatch(_, _)
FirstNacaMatchFrom(t, i, m) == IF m # <<>> THEN m ELSE FirstNacaMatch(t, i + 1)
FirstNacaMatch(t, i) ==
    IF i > Len(t) THEN <<>>
    ELSE FirstNacaMatchFrom(t, i, NacaMatchAt(t, i))

\* (userInput.match(/naca\s*[-\s]*(\d{4})/i) || [])[1]
Captured(m) == IF m = <<>> THEN Undef ELSE Str(m)
nacaInText(userInput) == Captured(FirstNacaMatch(userInput, 1))

-----------------------------------------------------------------------------
(* validateParams *)

Fields == {"type", "span", "length", "diameter", "chord",
           "rootChord", "tipChord", "sweep", "naca"}

NoParams == [f \in Fields |-> Undef]

E_missingType == "Invalid or missing part type. Please describe a wing, fuselage, or stabilizer."

W_typeInferred(guess) ==
    CASE guess = Str(K_wing)       -> "Type not detected from AI. Using inferred type: wing."
      [] guess = Str(K_fuselage)   -> "Type not detected from AI. Using inferred type: fuselage."
      [] guess = Str(K_stabilizer) -> "Type not detected from AI. Using inferred type: stabilizer."
W_mapWingSpan   == "Mapped provided size to wing span."
W_mapFusLength  == "Mapped provided size to fuselage length."
W_mapStabSpan   == "Mapped provided size to stabilizer span."
W_defRootChord  == "Using default root chord."
W_defTipChord   == "Using default tip chord."
W_defWingSpan   == "Using default wing span."
W_clampWingSpan == "Span too large (>100m). Clamped."
W_defWingSweep  == "Sweep must be a number. Using 0."
W_defFusLength  == "Using default fuselage length."
W_defFusDiam    == "Using default fuselage diameter."
W_defStabSpan   == "Using default stabilizer span."

\* the outcome of a call: a returned {params, warnings} or a thrown Error
Returned(p, w) == [ok |-> TRUE, error |-> "", params |-> p, warnings |-> w]
Thrown(msg) == [ok |-> FALSE, error |-> msg, params |-> NoParams, warnings |-> <<>>]

\* the working state of validateParams: its params copy and its warnings
SetField(st, key, v) == [st EXCEPT !.p[key] = v]
Warn(st, msg) == [st EXCEPT !.w = Append(@, msg)]

isNum(v) == NumberIsFinite(Number(v))
asNum(v) == Number(v)

\* lines 846-849: take the NACA code of the text when params.naca is falsy
assignNaca(st, found) ==
    IF Falsy(st.p["naca"]) /\ ~Falsy(found) THEN SetField(st, "naca", found) ELSE st
assignNacaFromText(st, userInput) == assignNaca(st, nacaInText(userInput))

\* lines 855-860: coerce span, length, diameter, chord, sweep to a number or null
CoercedKeys == {"span", "length", "diameter", "chord", "sweep"}
FiniteOrNull(n) == IF NumberIsFinite(n) THEN n ELSE Null
coerceNumericFields(st) ==
    [st EXCEPT !.p = [f \in Fields |->
        IF f \in CoercedKeys /\ st.p[f].k \notin {"null", "undef"}
        THEN FiniteOrNull(asNum(st.p[f]))
        ELSE st.p[f]]]

\* lines 865-868, 899-902, 914-917
\* !isNum(v) || v <= 0
NotPositiveNumber(x) == ~NumberIsFinite(x) \/ NumLessEq(x, 0)
NotPositive(v) == NotPositiveNumber(Number(v))

\* mapSizeToField that overrides an explicit dimension too
mapSizeToField_always(st, key, sizeFromText, msg) ==
    IF NumberIsFinite(sizeFromText) /\ Greater(sizeFromText, 0)
    THEN Warn(SetField(st, key, sizeFromText), msg)
    ELSE st

mapSizeToField(st, key, sizeFromText, msg) ==
    IF NotPositive(st.p[key]) /\ NumberIsFinite(sizeFromText) /\ Greater(sizeFromText, 0)
    THEN Warn(SetField(st, key, sizeFromText), msg)
    ELSE st

\* lines 871-874
chordTo(st, key, has, chord) ==
    IF ~has /\ NumberIsFinite(chord) THEN SetField(st, key, chord) ELSE st
chordToRootTip(st) ==
    chordTo(chordTo(st, "rootChord", isNum(st.p["rootChord"]), Number(st.p["chord"])),
            "tipChord", isNum(st.p["tipChord"]), Number(st.p["chord"]))

\* lines 876, 880, 904, 905, 919: default a dimension that is not a positive number
defaultDimension(st, key, msg, dflt) ==
    IF NotPositive(st.p[key])
    THEN SetField(Warn(st, msg), key, Num(dflt))
    ELSE st

\* line 877: params.tipChord = params.rootChord * 0.5
defaultTipChord(st) ==
    IF NotPositive(st.p["tipChord"])
    THEN SetField(Warn(st, W_defTipChord), "tipChord",
                  Num(Half(Number(st.p["rootChord"]).n)))
    ELSE st

\* line 881
clampWingSpan(st) ==
    IF Greater(st.p["span"], N(100))
    THEN SetField(Warn(st, W_clampWingSpan), "span", Num(N(100)))
    ELSE st

\* line 883
defaultWingSweep(st) ==
    IF ~isNum(st.p["sweep"])
    THEN SetField(Warn(st, W_defWingSweep), "sweep", Num(0))
    ELSE st

\* line 921
defaultStabSweep(st) ==
    IF ~isNum(st.p["sweep"]) THEN SetField(st, "sweep", Num(0)) ELSE st

\* Math.min(c, x) and Math.max(c, x) of a number c and a converted value x
MathMin(c, x) == IF x.k = "num" THEN Num(Min(c, x.n)) ELSE NaN
MathMax(c, x) == IF x.k = "num" THEN Num(Max(c, x.n)) ELSE NaN

\* Math.max(0, Math.min(60, v))
clampSweepValue(v) == MathMax(0, MathMin(N(60), Number(v)))

\* lines 884, 922
clampSweep(st) == SetField(st, "sweep", clampSweepValue(st.p["sweep"]))

\* FourDigitsOrNull keeping every run of digits
FourDigitsOrNull_anyDigits(digits) == IF digits # <<>> THEN Str(digits) ELSE Null
\* lines 887-890
FourDigitsOrNull(digits) == IF IsFourDigits(digits) THEN Str(digits) ELSE Null
cleanNaca(st) ==
    IF st.p["naca"].k = "str"
    THEN SetField(st, "naca", FourDigitsOrNull(StripNonDigits(st.p["naca"].s)))
    ELSE SetField(st, "naca", Null)

\* delete params[k] for the keys of ks
deleteKeys(st, ks) ==
    [st EXCEPT !.p = [f \in Fields |-> IF f \in ks THEN Undef ELSE st.p[f]]]

\* lines 863-895
normalizeWing(st, sizeFromText) ==
    deleteKeys(
      cleanNaca(
        clampSweep(
          defaultWingSweep(
            clampWingSpan(
              defaultDimension(
                defaultTipChord(
                  defaultDimension(
                    chordToRootTip(
                      mapSizeToField(st, "span", sizeFromText, W_mapWingSpan)),
                    "rootChord", W_defRootChord, N(2))),
                "span", W_defWingSpan, N(10)))))),
      {"length", "diameter", "chord"})

\* lines 897-910
normalizeFuselage(st, sizeFromText) ==
    deleteKeys(
      defaultDimension(
        defaultDimension(
          mapSizeToField(st, "length", sizeFromText, W_mapFusLength),
          "length", W_defFusLength, N(8)),
        "diameter", W_defFusDiam, N(2)),
      {"chord", "sweep", "span"})

\* lines 912-928
normalizeStabilizer(st, sizeFromText) ==
    deleteKeys(
      clampSweep(
        defaultStabSweep(
          defaultDimension(
            mapSizeToField(st, "span", sizeFromText, W_mapStabSpan),
            "span", W_defStabSpan, N(4)))),
      {"length", "diameter", "chord"})

\* lines 862, 897, 912: the branch is chosen by the lowercased type string
normalizeByType(st, sizeFromText) ==
    IF Includes(st.p["type"].s, K_wing) THEN normalizeWing(st, sizeFromText)
    ELSE IF Includes(st.p["type"].s, K_fuselage) THEN normalizeFuselage(st, sizeFromText)
    ELSE normalizeStabilizer(st, sizeFromText)

\* lines 834-843: the type is kept when it is a non-empty string, guessed from
\* the text otherwise, and lowercased
inferType(st, guess) == Warn(SetField(st, "type", guess), W_typeInferred(guess))
lowerType(st) == SetField(st, "type", Str(toLowerCase(st.p["type"].s)))

Result(out) == Returned(out.p, out.w)

\* lines 843-930, from the params copy with its type settled
normalizeTyped(st, userInput) ==
    Result(normalizeByType(coerceNumericFields(assignNacaFromText(lowerType(st), userInput)),
                           parseSizeFromText(toLowerCase(userInput))))

validateGuessed(raw, userInput, guess) ==
    IF Falsy(guess) THEN Thrown(E_missingType)
    ELSE normalizeTyped(inferType([p |-> raw, w |-> <<>>], guess), userInput)

validateParams(raw, userInput) ==
    IF Falsy(raw["type"]) \/ raw["type"].k # "str"
    THEN validateGuessed(raw, userInput, guessPartTypeFromText(userInput))
    ELSE normalizeTyped([p |-> raw, w |-> <<>>], userInput)

-----------------------------------------------------------------------------
(* Exact arithmetic for the derived quantities: a quotient n/d, NaN or an  *)
(* infinity.                                                               *)

RECURSIVE GCD(_, _)
GCD(a, b) == IF b = 0 THEN a ELSE GCD(b, a % b)
Abs(a) == IF a < 0 THEN -a ELSE a

\* Math.sqrt on whole numbers: the largest r with r * r <= v
RECURSIVE SqrtFrom(_, _)
SqrtFrom(v, r) ==
    IF r * r <= v /\ v < (r + 1) * (r + 1) THEN r
    ELSE SqrtFrom(v, (r + (v \div r)) \div 2)
IntSqrt(v) == IF v = 0 THEN 0 ELSE SqrtFrom(v, IF v < 40000 THEN (v + 1) \div 2 ELSE 20000)

QNaN == [k |-> "nan", n |-> 0, d |-> 1]
QInf(sign) == [k |-> "inf", n |-> sign, d |-> 1]
Reduced(n, d, g) == [k |-> "fin", n |-> n \div g, d |-> d \div g]
Q(n, d) == IF n = 0 THEN [k |-> "fin", n |-> 0, d |-> 1] ELSE Reduced(n, d, GCD(Abs(n), d))

\* the number a value converts to
QOfNumber(x) == IF x.k = "num" THEN Q(x.n, 100) ELSE QNaN
QOf(v) == QOfNumber(Number(v))

\* a * b and a / b; the operands are finite or NaN where the code multiplies
\* and divides
\* (the common factors are cancelled before the products are formed)
CrossMul(an, ad, bn, bd, g, h) ==
    Q((an \div g) * (bn \div h), (ad \div h) * (bd \div g))
QMul(a, b) ==
    IF a.k # "fin" \/ b.k # "fin" THEN QNaN
    ELSE IF a.n = 0 \/ b.n = 0 THEN Q(0, 1)
    ELSE CrossMul(a.n, a.d, b.n, b.d, GCD(Abs(a.n), b.d), GCD(Abs(b.n), a.d))
QDiv(a, b) ==
    IF a.k # "fin" \/ b.k # "fin" THEN QNaN
    ELSE IF b.n = 0
         THEN (IF a.n = 0 THEN QNaN ELSE QInf(IF a.n > 0 THEN 1 ELSE -1))
    ELSE QMul(a, [k |-> "fin", n |-> (IF b.n < 0 THEN -b.d ELSE b.d), d |-> Abs(b.n)])

\* a > n/d and a < n/d
QGreater(a, n, d) ==
    \/ a.k = "inf" /\ a.n > 0
    \/ a.k = "fin" /\ a.n * d > n * a.d
QLess(a, n, d) ==
    \/ a.k = "inf" /\ a.n < 0
    \/ a.k = "fin" /\ a.n * d < n * a.d

\* a + b of JavaScript: a concatenation when an operand is a string
ToStringValue(v) ==
    CASE v.k = "str"   -> v.s
      [] v.k = "num"   -> NumberToString(v.n)
      [] v.k = "null"  -> <<"n","u","l","l">>
      [] v.k = "undef" -> <<"u","n","d","e","f","i","n","e","d">>
      [] v.k = "nan"   -> <<"N","a","N">>
PlusNumbers(x, y) == IF x.k = "num" /\ y.k = "num" THEN Num(x.n + y.n) ELSE NaN
Plus(a, b) ==
    IF a.k = "str" \/ b.k = "str" THEN Str(ToStringValue(a) \o ToStringValue(b))
    ELSE PlusNumbers(Number(a), Number(b))

-----------------------------------------------------------------------------
(* Safety checks *)


E_typeError == "TypeError"

\* if (cond) list.push(msg)
PushIf(list, cond, msg) == IF cond THEN Append(list, msg) ELSE list

Verdict(issues, warnings) == [ok |-> TRUE, error |-> "", issues |-> issues, warnings |-> warnings]
VerdictThrown(msg) == [ok |-> FALSE, error |-> msg, issues |-> <<>>, warnings |-> <<>>]

\* wingIssues with the root chord bound taken as <= 0.5
wingIssues_rootChordLessEq(params) ==
    PushIf(PushIf(PushIf(PushIf(<<>>,
        Greater(params["span"], N(80)),
            "CRITICAL: Span exceeds maximum safe limit (A380 = 79.8m)"),
        Less(params["span"], N(2)),
            "CRITICAL: Span too small to be functional"),
        LessEq(params["rootChord"], 50),
            "CRITICAL: Root chord too small for structural integrity"),
        Greater(params["sweep"], N(60)),
            "CRITICAL: Sweep angle exceeds aerodynamic limits (Concorde = 60)")

\* wingIssues with the sweep bound taken as >= 60
wingIssues_sweepFrom60(params) ==
    PushIf(PushIf(PushIf(PushIf(<<>>,
        Greater(params["span"], N(80)),
            "CRITICAL: Span exceeds maximum safe limit (A380 = 79.8m)"),
        Less(params["span"], N(2)),
            "CRITICAL: Span too small to be functional"),
        Less(params["rootChord"], 50),
            "CRITICAL: Root chord too small for structural integrity"),
        Greater(params["sweep"], N(60) - 1),
            "CRITICAL: Sweep angle exceeds aerodynamic limits (Concorde = 60)")

\* lines 385-405: the critical issues of a wing
wingIssues(params) ==
    PushIf(PushIf(PushIf(PushIf(<<>>,
        Greater(params["span"], N(80)),
            "CRITICAL: Span exceeds maximum safe limit (A380 = 79.8m)"),
        Less(params["span"], N(2)),
            "CRITICAL: Span too small to be functional"),
        Less(params["rootChord"], 50),
            "CRITICAL: Root chord too small for structural integrity"),
        Greater(params["sweep"], N(60)),
            "CRITICAL: Sweep angle exceeds aerodynamic limits (Concorde = 60)")

\* lines 414-415: area = span * (rootChord + tipChord) / 2, AR = span * span / area
aspectRatio(span, chords) == QDiv(QMul(span, span), QDiv(QMul(span, chords), Q(2, 1)))

\* lines 413-423 and 428-437, both under rootChord && tipChord (the texts
\* without the value they quote)
aspectWarnings(w, both, AR) ==
    PushIf(PushIf(w,
        both /\ QGreater(AR, 15, 1),
            "WARNING: High aspect ratio requires special structural design (glider range)"),
        both /\ QLess(AR, 3, 1),
            "WARNING: Low aspect ratio reduces lift efficiency (fighter jet range)")
taperWarnings(w, both, lambda) ==
    PushIf(PushIf(w,
        both /\ QLess(lambda, 2, 10),
            "WARNING: Extreme taper may cause tip stall before root"),
        both /\ QGreater(lambda, 1, 1),
            "WARNING: Tip chord larger than root is unusual")

\* lines 397-408 and 413-437: the warnings of a wing
wingWarnings(params) ==
    taperWarnings(
      aspectWarnings(
        PushIf(PushIf(<<>>,
            Greater(params["rootChord"], N(15)),
                "WARNING: Unusually large root chord"),
            Greater(params["sweep"], N(50)) /\ LessEq(params["sweep"], N(60)),
                "WARNING: Very high sweep angle (supersonic aircraft range)"),
        ~Falsy(params["rootChord"]) /\ ~Falsy(params["tipChord"]),
        aspectRatio(QOf(params["span"]), QOf(Plus(params["rootChord"], params["tipChord"])))),
      ~Falsy(params["rootChord"]) /\ ~Falsy(params["tipChord"]),
      QDiv(QOf(params["tipChord"]), QOf(params["rootChord"])))

\* lines 381-438
wingChecks(params) == Verdict(wingIssues(params), wingWarnings(params))

\* lines 465-473, under length && diameter
ratioWarnings(w, both, ratio) ==
    PushIf(PushIf(w,
        both /\ QGreater(ratio, 20, 1),
            "WARNING: High length/diameter ratio may cause structural flexibility"),
        both /\ QLess(ratio, 5, 1),
            "WARNING: Low length/diameter ratio - very stubby design")

\* lines 443-474
fuselageChecks(params) ==
    Verdict(PushIf(<<>>,
                Greater(params["length"], N(80)),
                    "CRITICAL: Length exceeds practical limits (747-8 = 76.3m)"),
            ratioWarnings(
              PushIf(PushIf(PushIf(<<>>,
                  Less(params["length"], N(5)),
                      "WARNING: Very short for passenger aircraft"),
                  Greater(params["diameter"], N(8)),
                      "WARNING: Unusually large diameter (requires special manufacturing)"),
                  Less(params["diameter"], 150),
                      "WARNING: Too narrow for typical passenger seating"),
              ~Falsy(params["length"]) /\ ~Falsy(params["diameter"]),
              QDiv(QOf(params["length"]), QOf(params["diameter"]))))

\* lines 479-493
stabilizerChecks(params) ==
    Verdict(<<>>,
            PushIf(PushIf(PushIf(<<>>,
                Greater(params["span"], N(15)),
                    "WARNING: Very large stabilizer (exceeds typical tail dimensions)"),
                Less(params["span"], N(2)),
                    "WARNING: Very small stabilizer (may be insufficient for control)"),
                Greater(params["sweep"], N(50)),
                    "WARNING: High sweep angle for stabilizer (reduces control authority)"))

\* lines 376-494: the checks by the lowercased type
checksOfType(type, params) ==
    IF Includes(type, K_wing) THEN wingChecks(params)
    ELSE IF Includes(type, K_fuselage) THEN fuselageChecks(params)
    ELSE IF Includes(type, K_stabilizer) THEN stabilizerChecks(params)
    ELSE Verdict(<<>>, <<>>)

\* runSafetyChecks without the guard of line 374
runSafetyChecks_noGuard(params) ==
    IF params["type"].k # "str" THEN VerdictThrown(E_typeError)
    ELSE checksOfType(toLowerCase(params["type"].s), params)

\* runSafetyChecks; a null params is NoParams.  A truthy type that is not a
\* string has no toLowerCase: the call throws a TypeError.
runSafetyChecks(params) ==
    IF params = NoParams \/ Falsy(params["type"]) THEN Verdict(<<>>, <<>>)
    ELSE IF params["type"].k # "str" THEN VerdictThrown(E_typeError)
    ELSE checksOfType(toLowerCase(params["type"].s), params)

-----------------------------------------------------------------------------
(* Geometry *)

\* coerce(v, fallback)
FiniteOr(n, fallback) == IF NumberIsFinite(n) THEN n ELSE Num(fallback)
coerce(v, fallback) == FiniteOr(Number(v), fallback)

\* isValidNaca4(s)
isValidNaca4(v) == v.k = "str" /\ IsFourDigits(v.s)

\* Math.max(c, tiny) with tiny = 1e-4, below every positive number counted in
\* hundredths
Tiny == [k |-> "1e-4", n |-> 0, s |-> <<>>]
MaxTiny(c) == IF c.n > 0 THEN c ELSE Tiny

NoMesh == [solid |-> "none"]
GeometryThrown == [solid |-> "thrown"]

\* who wrote the normals of the root-cap and tip-cap vertices last: the
\* override of createWing (the averaged mid-span normal, or (0,1,0) when no
\* sample was found), or a computeVertexNormals
CapOverride == "set to the averaged mid-span normal"
FaceNormals == "computed from the faces"

\* createWing: the solid it builds, named by what the extrusion and the shear
\* are given, and by the last writer of its cap normals (lines 280-315, taking
\* the extrusion to have the three groups the code expects).
\* (params.naca || "").trim() throws on a truthy naca that is not a string.
nacaOrDefault(code) == IF isValidNaca4(Str(code)) THEN code ELSE <<"0","0","1","2">>
wingSolid(params, naca) ==
    IF naca.k # "str" THEN GeometryThrown
    ELSE [solid |-> "wing",
          span |-> coerce(params["span"], N(10)),
          rootChord |-> MaxTiny(coerce(params["rootChord"], N(2))),
          tipChord |-> MaxTiny(coerce(params["tipChord"], N(1))),
          sweep |-> coerce(params["sweep"], 0),
          naca |-> nacaOrDefault(TrimRight(TrimLeft(naca.s))),
          capNormals |-> CapOverride]
createWing(params) ==
    wingSolid(params, IF Falsy(params["naca"]) THEN Str(<<>>) ELSE params["naca"])

\* createFuselage: CylinderGeometry(diameter/2, diameter/2 * 0.8, length, 32)
createFuselage(params) ==
    [solid |-> "fuselage",
     length |-> coerce(params["length"], N(8)),
     diameter |-> coerce(params["diameter"], N(2)),
     radialSegments |-> 32]

\* createStabilizer: the flat profile of chord 1.5 extruded over the span
createStabilizer(params) ==
    [solid |-> "stabilizer", span |-> coerce(params["span"], N(4)), chord |-> 150]

\* new THREE.BoxGeometry(3, 1, 6)
BoxGeometry == [solid |-> "box", width |-> N(3), height |-> N(1), depth |-> N(6)]

\* generateAircraftPart, lines 171-177: the geometry by type ("thrown" when
\* params.type is truthy and has no toLowerCase)
geometryOfType_fuselageFirst(partType, params) ==
    IF Includes(partType, K_fuselage) THEN createFuselage(params)
    ELSE IF Includes(partType, K_wing) THEN createWing(params)
    ELSE IF Includes(partType, K_stabilizer) THEN createStabilizer(params)
    ELSE BoxGeometry
geometryOfType(partType, params) ==
    IF Includes(partType, K_wing) THEN createWing(params)
    ELSE IF Includes(partType, K_fuselage) THEN createFuselage(params)
    ELSE IF Includes(partType, K_stabilizer) THEN createStabilizer(params)
    ELSE BoxGeometry
\* geometry.computeVertexNormals(): every vertex normal is computed again
\* from the faces around the vertex
computeVertexNormals(geo) ==
    IF geo.solid = "wing" THEN [geo EXCEPT !.capNormals = FaceNormals] ELSE geo
\* lines 171-179
partGeometry(params) ==
    IF ~Falsy(params["type"]) /\ params["type"].k # "str" THEN GeometryThrown
    ELSE computeVertexNormals(
             geometryOfType(IF Falsy(params["type"]) THEN <<"u","n","k","n","o","w","n">>
                            ELSE toLowerCase(params["type"].s),
                            params))

-----------------------------------------------------------------------------
(* Aerodynamic metrics and their edits *)

QAdd(a, b) ==
    IF a.k # "fin" \/ b.k # "fin" THEN QNaN ELSE Q(a.n * b.d + b.n * a.d, a.d * b.d)
QNeg(a) == IF a.k = "fin" THEN [a EXCEPT !.n = -a.n] ELSE a
QAbs(a) == IF a.k = "fin" THEN [a EXCEPT !.n = Abs(a.n)] ELSE a

\* fix with toFixed(1) in place of toFixed(3)
fix_oneDecimal(v) ==
    IF v.k # "fin" THEN v
    ELSE Q((IF v.n < 0 THEN -1 ELSE 1) * ((20 * Abs(v.n) + v.d) \div (2 * v.d)), 10)

\* fix(v) = Number(v.toFixed(3)): the nearest multiple of 0.001, the larger
\* in magnitude of two equally near; NaN and the infinities are themselves
fix(v) ==
    IF v.k # "fin" THEN v
    ELSE Q((IF v.n < 0 THEN -1 ELSE 1)
           * (1000 * (Abs(v.n) \div v.d) + (2000 * (Abs(v.n) % v.d) + v.d) \div (2 * v.d)),
           1000)

\* lines 1587-1589: lambda = ct / cr, S = (b * (cr + ct)) / 2, AR = b * b / S
taperRatio(cr, ct) == QDiv(ct, cr)
planformArea(b, chords) == QDiv(QMul(b, chords), Q(2, 1))
aspectOf(b, S) == QDiv(QMul(b, b), S)

\* the three metric boxes as updateAeroMetricsFromParams fills them
Boxes(AR, lambda, S) == [AR |-> fix(AR), lambda |-> fix(lambda), S |-> fix(S)]
boxesOf(b, lambda, S) == Boxes(aspectOf(b, S), lambda, S)
aeroBoxes(params) ==
    boxesOf(QOf(params["span"]),
            taperRatio(QOf(params["rootChord"]), QOf(params["tipChord"])),
            planformArea(QOf(params["span"]),
                         QOf(Plus(params["rootChord"], params["tipChord"]))))

\* updateAeroMetricsFromParams(params): the boxes are left as they are when
\* there is no record or its type does not include "wing".  (The type is a
\* string wherever the function is called.)
updateAeroMetricsFromParams(boxes, params) ==
    IF params = NoParams \/ ~Includes(params["type"].s, K_wing) THEN boxes
    ELSE aeroBoxes(params)

\* line 1606: span = Math.sqrt(AR * S), by its square
spanSquared(AR, S) == QMul(AR, S)
\* line 1616: tipChord = rootChord * lambda
tipFromLambda(cr, lambda) == QMul(cr, lambda)
\* lines 1625-1630: lambda = tipChord / rootChord, cr = (2 * S / b) / (1 + lambda)
rootFromArea(S, b, lambda) == QDiv(QDiv(QMul(Q(2, 1), S), b), QAdd(Q(1, 1), lambda))

-----
(* Inputs of the normalizer *)

S_Wing     == <<"W","i","n","g">>
S_rocket   == <<"r","o","c","k","e","t">>
S_abc      == <<"a","b","c">>
S_3        == <<"3">>
S_2412     == <<"2","4","1","2">>
S_12       == <<"1","2">>
S_24_12    == <<"2","4","-","1","2">>

T_box      == <<"a"," ","b","o","x">>
T_Wing     == <<"W","i","n","g">>
T_tailtube == <<"t","a","i","l"," ","t","u","b","e">>
T_sweptfin == <<"s","w","e","p","t"," ","f","i","n"," ","b","o","d","y">>
T_fus12    == <<"a"," ","1","2"," ","m"," ","f","u","s","e","l","a","g","e">>
T_rudder   == <<"r","u","d","d","e","r"," ","6"," ","m","e","t","e","r","s">>
T_wingft   == <<"w","i","n","g"," ","2","5","f","t"," ","n","a","c","a"," ","2","4","1","2">>
T_naca     == <<"N","A","C","A","-","4","4","1","5"," ","a","i","r","f","o","i","l",
                " ","5","0","0"," ","m","m">>
T_delta    == <<"1","5","0"," ","m"," ","d","e","l","t","a">>

\* the source texts tried
Texts == {T_box, T_Wing, T_tailtube, T_sweptfin, T_fus12, T_rudder,
          T_wingft, T_naca, T_delta}

\* the values tried for each field of a raw record
TypeValues == {Undef, Num(N(5)), Str(<<>>), Str(S_Wing), Str(K_fuselage),
               Str(K_stabilizer), Str(S_rocket)}

NumericFields == Fields \ {"type"}

FieldValues(f) ==
    CASE f = "span"      -> {Null, Str(S_abc), Num(0), Num(N(5)), Num(N(150))}
      [] f = "length"    -> {Null, Num(N(12)), Num(-N(1))}
      [] f = "diameter"  -> {Num(0), Num(N(2))}
      [] f = "chord"     -> {Null, Num(N(3))}
      [] f = "rootChord" -> {Null, Str(S_3), Num(N(4)), Num(0), MIN_VALUE}
      [] f = "tipChord"  -> {Null, Num(N(1))}
      [] f = "sweep"     -> {Null, Str(S_abc), Num(-N(5)), Num(N(75)), Num(N(30))}
      [] f = "naca"      -> {Str(S_2412), Str(S_12), Num(N(2412))}

\* a raw record gives the type and at most MaxGiven other fields
MaxGiven == 2

\* the records that extend base with a value for every field of S
RECURSIVE RecordsGiving(_, _)
RecordsGivingField(S, base, f) ==
    UNION { RecordsGiving(S \ {f}, [base EXCEPT ![f] = v]) : v \in FieldValues(f) }
RecordsGiving(S, base) ==
    IF S = {} THEN {base} ELSE RecordsGivingField(S, base, CHOOSE f \in S : TRUE)

RawRecords ==
    UNION { RecordsGiving(S, [NoParams EXCEPT !["type"] = t]) :
            S \in {X \in SUBSET NumericFields : Cardinality(X) <= MaxGiven},
            t \in TypeValues }

-----------------------------------------------------------------------------
(* Inputs of the application *)

A_key == <<"k","e","y">>

\* the records the extraction service answers with (the first is the record
\* callGeminiAPI returns when the answer holds no JSON) and the presets carry
GeminiNoJson ==
    [NoParams EXCEPT !["type"] = Null, !["span"] = Null, !["length"] = Null,
                     !["diameter"] = Null, !["chord"] = Null, !["sweep"] = Null]
AppRaws ==
    { GeminiNoJson,
      NoParams,
      [NoParams EXCEPT !["type"] = Str(S_Wing), !["span"] = Num(N(150)),
                       !["chord"] = Num(N(3)), !["sweep"] = Num(N(75)),
                       !["naca"] = Str(S_24_12)],
      [NoParams EXCEPT !["type"] = Str(K_wing), !["span"] = Num(N(5)),
                       !["naca"] = Str(S_12)],
      [NoParams EXCEPT !["type"] = Str(K_fuselage), !["length"] = Null,
                       !["diameter"] = Num(N(2))],
      [NoParams EXCEPT !["type"] = Str(K_stabilizer), !["span"] = Num(N(5)),
                       !["sweep"] = Num(N(30))],
      [NoParams EXCEPT !["type"] = Str(S_rocket)] }

\* the descriptions typed and the labels of the preset chips
AppTexts == {T_box, T_fus12, T_wingft}
ChipLabels == {T_box, T_rudder}

\* what is typed into the NACA box (maxlength 4) and into the metric boxes
NacaTyped == {S_2412, <<"2","4","a","1">>, <<>>}
LambdaTyped == {<<"0">>, <<"0",".","5">>}
AreaTyped == {<<"0">>, <<"6">>}

-----------------------------------------------------------------------------
(* State *)

VARIABLES
    raw,        \* the raw record given to validateParams
    text,       \* the source text given with it
    res,        \* what validateParams(raw, text) did
    res2,       \* what validateParams(res.params, text) did
    pc,         \* the stage of a harness ("input", "normalized", ...); "app" in
                \* the application
    currentParams,       \* last validated params (NoParams is null)
    currentMesh,         \* the geometry of the mesh in the scene
    cachedWorkingModel,  \* whether a working model name is cached
    btnDisabled,         \* generateBtn.disabled
    pending,             \* the extraction request in flight
    output,              \* the output box: its warning slot and its paragraphs
    safetyChecks,        \* the safety box
    panel,               \* the parameter panel and the aero panel
    aeroInputs,          \* what the boxes arInput, lambdaInput, areaInput hold
    lastEvent,           \* the handler that ran last and how it ended
    edits                \* the number of edits made at the panel in a session

normVars == <<raw, text, res, res2, pc>>
appVars == <<currentParams, currentMesh, cachedWorkingModel,
             btnDisabled, pending, output, safetyChecks, panel, aeroInputs, lastEvent,
             edits>>
vars == <<raw, text, res, res2, pc, currentParams, currentMesh, cachedWorkingModel,
          btnDisabled, pending, output, safetyChecks, panel, aeroInputs, lastEvent,
          edits>>

NoResult == [ok |-> FALSE, error |-> "not called", params |-> NoParams, warnings |-> <<>>]

NoPending == [stage |-> "none", userInput |-> <<>>]
NoEvent == [name |-> "none", threw |-> FALSE, error |-> "", caught |-> FALSE]
HiddenPanel == [visible |-> FALSE, sliders |-> "none", aero |-> FALSE]
\* the three metric boxes before any metric is written to them
NoBoxes == Boxes(Q(0, 1), Q(0, 1), Q(0, 1))

\* the page as loaded
AppInit ==
    /\ edits = 0
    /\ currentParams = NoParams
    /\ currentMesh = NoMesh
    /\ cachedWorkingModel = FALSE
    /\ btnDisabled = FALSE
    /\ pending = NoPending
    /\ output = [slot |-> FALSE, warnings |-> <<>>, body |-> <<>>]
    /\ safetyChecks = [shown |-> "none", issues |-> <<>>, warnings |-> <<>>]
    /\ panel = HiddenPanel
    /\ aeroInputs = NoBoxes
    /\ lastEvent = NoEvent

InitNormalize ==
    /\ raw \in RawRecords
    /\ text \in Texts
    /\ res = NoResult
    /\ res2 = NoResult
    /\ pc = "input"
    /\ AppInit

Normalize ==
    /\ pc = "input"
    /\ res' = validateParams(raw, text)
    /\ pc' = "normalized"
    /\ UNCHANGED <<raw, text, res2>>
    /\ UNCHANGED appVars

Renormalize ==
    /\ pc = "normalized"
    /\ res.ok
    /\ res2' = validateParams(res.params, text)
    /\ pc' = "renormalized"
    /\ UNCHANGED <<raw, text, res>>
    /\ UNCHANGED appVars

NextNormalize == Normalize \/ Renormalize

SpecNormalize == InitNormalize /\ [][NextNormalize]_vars

\* the parameter records given to runSafetyChecks
SafetyRecords ==
    { [NoParams EXCEPT !["type"] = t, !["span"] = b, !["rootChord"] = cr,
                       !["tipChord"] = ct, !["sweep"] = sw, !["length"] = l,
                       !["diameter"] = d] :
        t \in {Undef, Null, Num(0), Num(N(5)), Str(<<>>), Str(S_Wing), Str(K_fuselage),
               Str(K_stabilizer), Str(S_rocket)},
        b \in {Undef, Null, Num(N(1)), Num(N(5)), Num(N(80)), Num(N(90))},
        cr \in {Undef, Null, Num(49), Num(50), Str(S_3), Num(N(16))},
        ct \in {Undef, Num(N(1))},
        sw \in {Undef, Null, Num(N(30)), Num(N(50)), Num(N(55)), Num(N(60)), Num(N(75))},
        l \in {Undef, Num(N(3)), Num(N(80)), Num(N(81))},
        d \in {Null, Num(N(2))} }

InitSafety ==
    /\ raw \in SafetyRecords
    /\ text = <<>>
    /\ res = NoResult
    /\ res2 = NoResult
    /\ pc = "unchecked"
    /\ AppInit

\* a call of runSafetyChecks(raw)
SafetyCheck ==
    /\ pc = "unchecked"
    /\ res' = runSafetyChecks(raw)
    /\ pc' = "checked"
    /\ UNCHANGED <<raw, text, res2>>
    /\ UNCHANGED appVars

NextSafety == SafetyCheck

SpecSafety == InitSafety /\ [][NextSafety]_vars

\* the wings whose metrics are computed and edited
AeroValues == {Num(25), Num(N(1)), Num(150), Num(N(2)), Num(N(3)), Num(N(7))}
AeroRecords ==
    { [NoParams EXCEPT !["type"] = Str(K_wing), !["span"] = b,
                       !["rootChord"] = cr, !["tipChord"] = ct] :
        b \in AeroValues, cr \in AeroValues, ct \in AeroValues }

InitAero ==
    /\ raw \in AeroRecords
    /\ text = <<>>
    /\ res = NoBoxes
    /\ res2 = NoResult
    /\ pc = "wing"
    /\ AppInit

\* updateAeroMetricsFromParams(raw) fills the boxes
AeroUpdate ==
    /\ pc = "wing"
    /\ res' = updateAeroMetricsFromParams(res, raw)
    /\ pc' = "metrics"
    /\ UNCHANGED <<raw, text, res2>>
    /\ UNCHANGED appVars

Edited(name, span2, cr, ct) ==
    [edit |-> name, span2 |-> span2, rootChord |-> cr, tipChord |-> ct]
AreaEdited(span2, cr, lambda) == Edited("S", span2, cr, QMul(cr, lambda))

\* the 'change' handlers of the three boxes, each committing the value its
\* box shows: what they assign to span (by its square), rootChord, tipChord
AeroEditAR ==
    /\ pc = "metrics"
    /\ res2' = Edited("AR", spanSquared(res.AR, res.S),
                      QOf(raw["rootChord"]), QOf(raw["tipChord"]))
    /\ pc' = "edited"
    /\ UNCHANGED <<raw, text, res>>
    /\ UNCHANGED appVars

AeroEditLambda ==
    /\ pc = "metrics"
    /\ res2' = Edited("lambda", QMul(QOf(raw["span"]), QOf(raw["span"])),
                      QOf(raw["rootChord"]),
                      tipFromLambda(QOf(raw["rootChord"]), res.lambda))
    /\ pc' = "edited"
    /\ UNCHANGED <<raw, text, res>>
    /\ UNCHANGED appVars

AeroEditArea ==
    /\ pc = "metrics"
    /\ res2' = AreaEdited(QMul(QOf(raw["span"]), QOf(raw["span"])),
                          rootFromArea(res.S, QOf(raw["span"]),
                                       taperRatio(QOf(raw["rootChord"]),
                                                  QOf(raw["tipChord"]))),
                          taperRatio(QOf(raw["rootChord"]), QOf(raw["tipChord"])))
    /\ pc' = "edited"
    /\ UNCHANGED <<raw, text, res>>
    /\ UNCHANGED appVars

\* the same handlers committing a value the user typed into the box
MetricTyped == {<<"0",".","5">>, <<"2">>, <<"8">>}
AeroTyped(typed, edited) ==
    /\ pc = "metrics"
    /\ text' = typed
    /\ res2' = edited
    /\ pc' = "typed"
    /\ UNCHANGED <<raw, res>>
    /\ UNCHANGED appVars
AeroTypeAR(typed) ==
    AeroTyped(typed, Edited("AR", spanSquared(QOf(Number(Str(typed))), res.S),
                            QOf(raw["rootChord"]), QOf(raw["tipChord"])))
AeroTypeLambda(typed) ==
    AeroTyped(typed, Edited("lambda", QMul(QOf(raw["span"]), QOf(raw["span"])),
                            QOf(raw["rootChord"]),
                            tipFromLambda(QOf(raw["rootChord"]), QOf(Number(Str(typed))))))
AeroTypeArea(typed) ==
    AeroTyped(typed, AreaEdited(QMul(QOf(raw["span"]), QOf(raw["span"])),
                                rootFromArea(QOf(Number(Str(typed))), QOf(raw["span"]),
                                             taperRatio(QOf(raw["rootChord"]),
                                                        QOf(raw["tipChord"]))),
                                taperRatio(QOf(raw["rootChord"]), QOf(raw["tipChord"]))))

NextAero ==
    \/ AeroUpdate \/ AeroEditAR \/ AeroEditLambda \/ AeroEditArea
    \/ \E typed \in MetricTyped :
           AeroTypeAR(typed) \/ AeroTypeLambda(typed) \/ AeroTypeArea(typed)

SpecAero == InitAero /\ [][NextAero]_vars

-----------------------------------------------------------------------------
(* The application: output box, panels, handlers *)


Item(t, msg, p) == [t |-> t, msg |-> msg, p |-> p]

\* output.innerHTML = '<div id="warnSlot"></div>' followed by the paragraphs
FreshOutput(body) == [slot |-> TRUE, warnings |-> <<>>, body |-> body]

showOutputSuccess(out, msg) ==
    [out EXCEPT !.body = Append(@, Item("success", msg, NoParams))]

\* the box is emptied, the warning slot (when there is one) is put back
showOutputError(out, msg) ==
    [out EXCEPT !.body = <<Item("error", msg, NoParams)>>]

showWarningsAboveParams(out, warnings) ==
    IF out.slot THEN [out EXCEPT !.warnings = warnings] ELSE out

\* displayParameters(params, true)
displayParameters(out, params) ==
    [out EXCEPT !.body = <<Item("params", "Extracted Parameters:", params)>>]

displaySafetyChecks(checks) ==
    [shown |-> "verdict", issues |-> checks.issues, warnings |-> checks.warnings]

\* buildParamPanel: the sliders by type and the aero panel
SlidersOfType(type) ==
    IF Includes(type, K_wing) THEN "wing"
    ELSE IF Includes(type, K_fuselage) THEN "fuselage"
    ELSE "stabilizer"
SlidersOf(params) ==
    SlidersOfType(IF Falsy(params["type"]) THEN <<>> ELSE toLowerCase(params["type"].s))
PanelOf(sliders) == [visible |-> TRUE, sliders |-> sliders, aero |-> sliders = "wing"]
buildParamPanel(params) == PanelOf(SlidersOf(params))
\* lines 1003, 1021: for a wing buildParamPanel fills the metric boxes
panelAeroInputs(boxes, params) ==
    IF SlidersOf(params) = "wing" THEN updateAeroMetricsFromParams(boxes, params)
    ELSE boxes

Event(name) == [name |-> name, threw |-> FALSE, error |-> "", caught |-> FALSE]
Failed(name, msg, caught) == [name |-> name, threw |-> TRUE, error |-> msg, caught |-> caught]

\* a handler of the page runs; the sessions explored use the controls of the
\* panel up to MaxEdits times
MaxEdits == 2
AppStep == pc = "app" /\ UNCHANGED normVars /\ UNCHANGED edits
PanelStep ==
    /\ pc = "app" /\ UNCHANGED normVars
    /\ edits < MaxEdits /\ edits' = edits + 1

\* generateBtn 'click', up to the first await (lines 1236-1249); key and
\* description are what the two boxes hold when the button is clicked
GenerateClick(key, description) ==
    /\ AppStep
    /\ ~btnDisabled
    /\ LET text0 == TrimRight(TrimLeft(description))
           out0 == FreshOutput(<<Item("loading", "Analyzing description...", NoParams)>>)
       IN  IF TrimRight(TrimLeft(key)) = <<>>
           THEN /\ output' = showOutputError(out0, "Please enter your API key!")
                /\ UNCHANGED <<btnDisabled, pending>>
           ELSE IF text0 = <<>>
           THEN /\ output' = showOutputError(out0, "Please describe an aircraft part!")
                /\ UNCHANGED <<btnDisabled, pending>>
           ELSE /\ output' = out0
                /\ btnDisabled' = TRUE
                /\ pending' = [stage |-> IF cachedWorkingModel THEN "generate"
                                         ELSE "findModel",
                               userInput |-> text0]
    /\ lastEvent' = Event("generateClick")
    /\ UNCHANGED <<currentParams, currentMesh, cachedWorkingModel, safetyChecks, panel,
                   aeroInputs>>

\* callGeminiAPI line 1190: findWorkingModel answers or throws
FindModelDone(found) ==
    /\ AppStep
    /\ pending.stage = "findModel"
    /\ IF found
       THEN /\ cachedWorkingModel' = TRUE
            /\ pending' = [pending EXCEPT !.stage = "generate"]
            /\ lastEvent' = Event("findModel")
            /\ UNCHANGED <<output, btnDisabled>>
       ELSE /\ output' = showOutputError(output, "No working Gemini model found.")
            /\ btnDisabled' = FALSE
            /\ pending' = NoPending
            /\ lastEvent' = Failed("generate", "No working Gemini model found.", TRUE)
            /\ UNCHANGED cachedWorkingModel
    /\ UNCHANGED <<currentParams, currentMesh, safetyChecks, panel, aeroInputs>>

\* the handler without line 1262 on the error path
GenerateFails_staysDisabled(notOk) ==
    /\ AppStep
    /\ pending.stage = "generate"
    /\ cachedWorkingModel' = (IF notOk THEN FALSE ELSE cachedWorkingModel)
    /\ output' = showOutputError(output, IF notOk THEN "Gemini API error" ELSE "Failed to fetch")
    /\ pending' = NoPending
    /\ lastEvent' = Failed("generate",
                            IF notOk THEN "Gemini API error" ELSE "Failed to fetch", TRUE)
    /\ UNCHANGED <<currentParams, currentMesh, safetyChecks, panel, aeroInputs, btnDisabled>>
\* callGeminiAPI lines 1203-1215: the request fails or is answered with an error
GenerateFails(notOk) ==
    /\ AppStep
    /\ pending.stage = "generate"
    /\ cachedWorkingModel' = (IF notOk THEN FALSE ELSE cachedWorkingModel)
    /\ output' = showOutputError(output, IF notOk THEN "Gemini API error" ELSE "Failed to fetch")
    /\ btnDisabled' = FALSE
    /\ pending' = NoPending
    /\ lastEvent' = Failed("generate",
                            IF notOk THEN "Gemini API error" ELSE "Failed to fetch", TRUE)
    /\ UNCHANGED <<currentParams, currentMesh, safetyChecks, panel, aeroInputs>>

\* lines 1252-1258: the panel is rebuilt from the validated params and the
\* part generated; an error of generateAircraftPart is caught at line 1259
GenerateBuilt(params, out1, geo) ==
    /\ currentParams' = params
    /\ panel' = buildParamPanel(params)
    /\ aeroInputs' = panelAeroInputs(aeroInputs, params)
    /\ IF geo = GeometryThrown
       THEN /\ currentMesh' = NoMesh
            /\ output' = showOutputError(out1, E_typeError)
            /\ lastEvent' = Failed("generate", E_typeError, TRUE)
            /\ UNCHANGED safetyChecks
       ELSE /\ currentMesh' = geo
            /\ safetyChecks' = displaySafetyChecks(runSafetyChecks(params))
            /\ output' = showOutputSuccess(out1, "3D model generated successfully!")
            /\ lastEvent' = Event("generate")

\* lines 1250-1261: v is what validateParams did
GenerateValidated(v) ==
    IF ~v.ok
    THEN /\ output' = showOutputError(output, v.error)
         /\ lastEvent' = Failed("generate", v.error, TRUE)
         /\ UNCHANGED <<currentParams, currentMesh, safetyChecks, panel, aeroInputs>>
    ELSE GenerateBuilt(v.params,
                       displayParameters(showWarningsAboveParams(output, v.warnings), v.params),
                       partGeometry(v.params))

\* lines 1250-1262: the answer is the record r
GenerateResponse(r) ==
    /\ AppStep
    /\ pending.stage = "generate"
    /\ GenerateValidated(validateParams(r, pending.userInput))
    /\ btnDisabled' = FALSE
    /\ pending' = NoPending
    /\ UNCHANGED cachedWorkingModel

\* example-chip 'click' on a chip without data-params (lines 1266-1282): the
\* description box is seeded with the chip's example
ChipExample ==
    /\ AppStep
    /\ safetyChecks' = [shown |-> "analyzing", issues |-> <<>>, warnings |-> <<>>]
    /\ output' = showOutputSuccess(FreshOutput(<<>>),
            "Preset applied to description. Press Generate 3D Part to build.")
    /\ lastEvent' = Event("chip")
    /\ UNCHANGED <<currentParams, currentMesh, cachedWorkingModel,
                   btnDisabled, pending, panel, aeroInputs>>

\* example-chip 'click' on a chip whose data-params is not JSON (lines 1285-1293)
ChipBadJson ==
    /\ AppStep
    /\ safetyChecks' = [shown |-> "analyzing", issues |-> <<>>, warnings |-> <<>>]
    /\ output' = showOutputError(FreshOutput(<<>>), "Invalid preset configuration")
    /\ lastEvent' = Failed("chip", "Invalid preset configuration", TRUE)
    /\ UNCHANGED <<currentParams, currentMesh, cachedWorkingModel,
                   btnDisabled, pending, panel, aeroInputs>>

\* lines 1303-1329: the panel is rebuilt from the validated params, the part
\* generated and the safety checks run; nothing catches an error here
ChipBuilt(params, out1, geo) ==
    /\ currentParams' = params
    /\ panel' = buildParamPanel(params)
    /\ aeroInputs' = panelAeroInputs(aeroInputs, params)
    /\ output' = out1
    /\ IF geo = GeometryThrown
       THEN /\ currentMesh' = NoMesh
            /\ safetyChecks' = [shown |-> "analyzing", issues |-> <<>>, warnings |-> <<>>]
            /\ lastEvent' = Failed("chip", E_typeError, FALSE)
       ELSE /\ currentMesh' = geo
            /\ safetyChecks' = displaySafetyChecks(runSafetyChecks(params))
            /\ lastEvent' = Event("chip")

\* lines 1299-1331: v is what validateParams did; its Error is thrown at line
\* 1299, outside any try, and ends the handler with the boxes as cleared
ChipValidated(v) ==
    IF ~v.ok
    THEN /\ output' = FreshOutput(<<>>)
         /\ safetyChecks' = [shown |-> "analyzing", issues |-> <<>>, warnings |-> <<>>]
         /\ lastEvent' = Failed("chip", v.error, FALSE)
         /\ UNCHANGED <<currentParams, currentMesh, panel, aeroInputs>>
    ELSE ChipBuilt(v.params,
                   displayParameters(showWarningsAboveParams(FreshOutput(<<>>), v.warnings),
                                     v.params),
                   partGeometry(v.params))

\* example-chip 'click' on a chip whose data-params is the record r and whose
\* text is label (lines 1266-1276, 1285-1331)
ChipPreset(r, label) ==
    /\ AppStep
    /\ ChipValidated(validateParams(r, label))
    /\ UNCHANGED <<cachedWorkingModel, btnDisabled, pending>>

\* a quotient as a number of the record: the nearest hundredth, the even one
\* of two equally near
RoundDiv(p, d) ==
    IF (2 * p) % (2 * d) = d
    THEN (IF (p \div d) % 2 = 0 THEN p \div d ELSE (p \div d) + 1)
    ELSE (2 * p + d) \div (2 * d)
NumberOfQ(q) ==
    CASE q.k = "fin" ->
             Num((IF q.n < 0 THEN -1 ELSE 1)
                 * (100 * (Abs(q.n) \div q.d) + RoundDiv(100 * (Abs(q.n) % q.d), q.d)))
      [] q.k = "nan" -> NaN

\* regenerateFromPanel(true), lines 1125-1138, with params the record the
\* handler has just changed in place: the metric boxes are refilled for a
\* wing, the part is generated and its safety checks shown, the panel is
\* rebuilt (which copies the record, line 963).  An error of
\* generateAircraftPart ends the handler after line 162.
regenerateFromPanel(name, params, geo) ==
    /\ currentParams' = params
    /\ aeroInputs' = updateAeroMetricsFromParams(aeroInputs, params)
    /\ IF geo = GeometryThrown
       THEN /\ currentMesh' = NoMesh
            /\ lastEvent' = Failed(name, E_typeError, FALSE)
            /\ UNCHANGED <<safetyChecks, panel>>
       ELSE /\ currentMesh' = geo
            /\ safetyChecks' = displaySafetyChecks(runSafetyChecks(params))
            /\ panel' = buildParamPanel(params)
            /\ lastEvent' = Event(name)
    /\ UNCHANGED <<cachedWorkingModel, btnDisabled, pending, output>>

\* the handler returns at its first line: no record, or not a wing
NotAWing(params) == params = NoParams \/ ~Includes(params["type"].s, K_wing)
EditIgnored(name, boxes) ==
    /\ aeroInputs' = boxes
    /\ lastEvent' = Event(name)
    /\ UNCHANGED <<currentParams, currentMesh, cachedWorkingModel, btnDisabled, pending,
                   output, safetyChecks, panel>>

\* naca_code 'change' (lines 1014-1018); the box exists in the panel of a wing
\* and holds typed
NacaEdited(params) == regenerateFromPanel("nacaEdit", params, partGeometry(params))
NacaEdit(typed) ==
    /\ PanelStep
    /\ panel.visible /\ panel.sliders = "wing"
    /\ NacaEdited([currentParams EXCEPT !["naca"] = FourDigitsOrNull(StripNonDigits(typed))])

\* lambdaInput 'change' (lines 1613-1620), the box holding typed
LambdaEdited(params) == regenerateFromPanel("lambdaEdit", params, partGeometry(params))
LambdaEdit(typed) ==
    /\ PanelStep
    /\ IF NotAWing(currentParams)
       THEN EditIgnored("lambdaEdit", [aeroInputs EXCEPT !.lambda = QOf(Str(typed))])
       ELSE LambdaEdited([currentParams EXCEPT !["tipChord"] =
                NumberOfQ(tipFromLambda(QOf(currentParams["rootChord"]), QOf(Str(typed))))])

\* areaInput 'change' (lines 1623-1635), the box holding typed
AreaRegenerated(params) == regenerateFromPanel("areaEdit", params, partGeometry(params))
AreaChords(params, cr, lambda) ==
    AreaRegenerated([params EXCEPT !["rootChord"] = NumberOfQ(cr),
                               !["tipChord"] = NumberOfQ(QMul(cr, lambda))])
AreaFromLambda(params, S, lambda) ==
    AreaChords(params, rootFromArea(S, QOf(params["span"]), lambda), lambda)
AreaEdit(typed) ==
    /\ PanelStep
    /\ IF NotAWing(currentParams)
       THEN EditIgnored("areaEdit", [aeroInputs EXCEPT !.S = QOf(Str(typed))])
       ELSE AreaFromLambda(currentParams, QOf(Str(typed)),
                           taperRatio(QOf(currentParams["rootChord"]),
                                      QOf(currentParams["tipChord"])))

\* arInput 'change' (lines 1602-1610), the box holding typed: span =
\* Math.sqrt(AR * S) with S read from the area box; the square root of a
\* negative number is NaN
SqrtNumberOfQ(q) ==
    CASE q.k = "nan" -> NaN
      [] q.k = "fin" /\ q.n < 0 -> NaN
      [] q.k = "fin" /\ q.n >= 0 -> Num(IntSqrt(100 * NumberOfQ(q).n))
AspectEdited(params) == regenerateFromPanel("aspectEdit", params, partGeometry(params))
AspectEdit(typed) ==
    /\ PanelStep
    /\ IF NotAWing(currentParams)
       THEN EditIgnored("aspectEdit", [aeroInputs EXCEPT !.AR = QOf(Str(typed))])
       ELSE AspectEdited([currentParams EXCEPT !["span"] =
                SqrtNumberOfQ(spanSquared(QOf(Str(typed)), aeroInputs.S))])

\* buildParamPanel, lines 975-989: the sliders of each kind with their bounds
Slider(key, min, max, step) == [key |-> key, min |-> min, max |-> max, step |-> step]
SliderDefs(kind) ==
    CASE kind = "wing" ->
             {Slider("span", 50, N(100), 10), Slider("rootChord", 10, N(10), 10),
              Slider("tipChord", 5, N(10), 10), Slider("sweep", 0, N(60), N(1))}
      [] kind = "fuselage" ->
             {Slider("length", 50, N(100), 10), Slider("diameter", 10, N(10), 10)}
      [] kind = "stabilizer" ->
             {Slider("span", 50, N(30), 10), Slider("sweep", 0, N(60), N(1))}
      [] OTHER -> {}
AllSliders == SliderDefs("wing") \cup SliderDefs("fuselage") \cup SliderDefs("stabilizer")

\* parseFloat of what a number box or a range holds: the empty string when
\* the text typed is no number, a decimal numeral otherwise
parseFloat(s) == IF s = <<>> THEN NaN ELSE Number(Str(s))

\* setVal(number.value, true) on Enter in the number box of a slider (lines
\* 1075-1085, 1116-1118)
\* setVal without the clamp of line 1078
setVal_unclamped(params, def, parsed) ==
    regenerateFromPanel("numberCommit", [params EXCEPT ![def.key] = parsed],
                        partGeometry([params EXCEPT ![def.key] = parsed]))
setVal(params, def, parsed) ==
    regenerateFromPanel("numberCommit",
                        [params EXCEPT ![def.key] = MathMax(def.min, MathMin(def.max, parsed))],
                        partGeometry([params EXCEPT ![def.key] =
                                          MathMax(def.min, MathMin(def.max, parsed))]))
NumberCommit(def, typed) ==
    /\ PanelStep
    /\ panel.visible /\ def \in SliderDefs(panel.sliders)
    /\ IF ~NumberIsFinite(parseFloat(typed))
       THEN EditIgnored("numberCommit", aeroInputs)
       ELSE setVal(currentParams, def, parseFloat(typed))

\* the range handlers (lines 1089-1114): the record is changed in place, the
\* metric boxes refilled and the part generated; the panel is not rebuilt.
\* An error of generateAircraftPart ends the handler after line 162.
liveUpdate(name, params, geo) ==
    /\ currentParams' = params
    /\ aeroInputs' = updateAeroMetricsFromParams(aeroInputs, params)
    /\ IF geo = GeometryThrown
       THEN /\ currentMesh' = NoMesh
            /\ lastEvent' = Failed(name, E_typeError, FALSE)
            /\ UNCHANGED safetyChecks
       ELSE /\ currentMesh' = geo
            /\ safetyChecks' = displaySafetyChecks(runSafetyChecks(params))
            /\ lastEvent' = Event(name)
    /\ UNCHANGED <<cachedWorkingModel, btnDisabled, pending, output, panel>>
\* range 'input' with the range at value, which the element keeps within
\* its min and max and on its steps from min
\* the 'input' handler without line 1105
RangeMoved_meshKept(params) == liveUpdate("rangeInput", params, currentMesh)
RangeMoved(params) == liveUpdate("rangeInput", params, partGeometry(params))
RangeInput(def, value) ==
    /\ PanelStep
    /\ panel.visible /\ def \in SliderDefs(panel.sliders)
    /\ def.min <= value /\ value <= def.max /\ (value - def.min) % def.step = 0
    /\ RangeMoved([currentParams EXCEPT ![def.key] = parseFloat(NumberToString(value))])
\* range 'change'
RangeChange ==
    /\ PanelStep
    /\ panel.visible
    /\ liveUpdate("rangeChange", currentParams, partGeometry(currentParams))

Init ==
    /\ raw = NoParams
    /\ text = <<>>
    /\ res = NoResult
    /\ res2 = NoResult
    /\ pc = "app"
    /\ AppInit

Next ==
    \/ \E key \in {<<>>, A_key}, t \in AppTexts \cup {<<>>} : GenerateClick(key, t)
    \/ \E found \in BOOLEAN : FindModelDone(found)
    \/ \E notOk \in BOOLEAN : GenerateFails(notOk)
    \/ \E r \in AppRaws : GenerateResponse(r)
    \/ ChipExample
    \/ ChipBadJson
    \/ \E r \in AppRaws, label \in ChipLabels : ChipPreset(r, label)

Spec == Init /\ [][Next]_vars

\* every request the page has sent is settled: the promise awaited at lines
\* 1190 and 1249 is resolved or rejected by the browser
RequestSettles ==
    \/ \E found \in BOOLEAN : FindModelDone(found)
    \/ \E notOk \in BOOLEAN : GenerateFails(notOk)
    \/ \E r \in AppRaws : GenerateResponse(r)
SpecLive == Spec /\ WF_vars(RequestSettles)

\* a session at the panel: presets are loaded and the boxes of the panel edited
NextPanel ==
    \/ \E r \in AppRaws, label \in ChipLabels : ChipPreset(r, label)
    \/ \E typed \in NacaTyped : NacaEdit(typed)
    \/ \E typed \in LambdaTyped : LambdaEdit(typed)
    \/ \E typed \in AreaTyped : AreaEdit(typed)

SpecPanel == Init /\ [][NextPanel]_vars

\* a whole session: requests from the generate button and their answers,
\* presets, and the controls of the panel, in any order
SessionWing ==
    [NoParams EXCEPT !["type"] = Str(S_Wing), !["span"] = Num(N(150)),
                     !["chord"] = Num(N(3)), !["sweep"] = Num(N(75)),
                     !["naca"] = Str(S_24_12)]
SessionRaws ==
    { GeminiNoJson, SessionWing,
      [NoParams EXCEPT !["type"] = Str(K_stabilizer), !["span"] = Num(N(5)),
                       !["sweep"] = Num(N(30))] }
SessionPresets ==
    { SessionWing,
      [NoParams EXCEPT !["type"] = Str(K_fuselage), !["length"] = Null,
                       !["diameter"] = Num(N(2))] }
SessionTexts == {T_box}
NumberTyped == {<<"2","0","0">>, <<>>}
AspectTyped == {<<"8">>}
SessionLambdaTyped == {<<"0">>}
SessionNacaTyped == {<<>>}
SessionAreaTyped == {<<"6">>}
\* the sliders moved in the session
SessionSliders == AllSliders
NextSession ==
    \/ \E t \in SessionTexts : GenerateClick(A_key, t)
    \/ \E found \in BOOLEAN : FindModelDone(found)
    \/ \E notOk \in BOOLEAN : GenerateFails(notOk)
    \/ \E r \in SessionRaws : GenerateResponse(r)
    \/ ChipExample
    \/ \E r \in SessionPresets : ChipPreset(r, T_rudder)
    \/ \E typed \in SessionNacaTyped : NacaEdit(typed)
    \/ \E typed \in AspectTyped : AspectEdit(typed)
    \/ \E typed \in SessionLambdaTyped : LambdaEdit(typed)
    \/ \E typed \in SessionAreaTyped : AreaEdit(typed)
    \/ \E def \in SessionSliders, typed \in NumberTyped : NumberCommit(def, typed)
    \/ \E def \in SessionSliders : RangeInput(def, def.min)
    \/ RangeChange

SpecSession == Init /\ [][NextSession]_vars

-----------------------------------------------------------------------------
(* The kernel operations called on a record the caller keeps *)

\* validateParams working on the caller's record itself
givenAfterValidateParams_aliased(given, out) == IF out.ok THEN out.params ELSE given
\* the caller's record after validateParams returned out: line 814 makes
\* params = { ...raw }, and lines 838-927 assign to and delete from params
givenAfterValidateParams(given, out) == given
\* the caller's record after runSafetyChecks (370-496), after the builders
\* (235-368) and after generateAircraftPart (147-233), which read params and
\* assign to none of its fields
givenAfterReading(given) == given

KernelTexts == AppTexts \cup ChipLabels

\* records naming two kinds at once, beside those of the application
S_fuselageWing == K_fuselage \o <<" ">> \o K_wing
S_tailStabilizerFuselage == K_tail \o <<" ">> \o K_stabilizer \o <<"/">> \o K_fuselage
KernelRaws ==
    AppRaws \cup
    { [NoParams EXCEPT !["type"] = Str(S_fuselageWing), !["span"] = Num(N(5)),
                       !["length"] = Num(N(7))],
      [NoParams EXCEPT !["type"] = Str(S_tailStabilizerFuselage),
                       !["span"] = Num(N(5)), !["diameter"] = Num(N(2))] }

InitKernel ==
    /\ raw \in KernelRaws
    /\ text \in KernelTexts
    /\ res = NoResult
    /\ res2 = NoResult
    /\ pc = "given"
    /\ AppInit

KernelNormalize ==
    /\ pc = "given"
    /\ res' = validateParams(raw, text)
    /\ raw' = givenAfterValidateParams(raw, res')
    /\ pc' = "normalized"
    /\ UNCHANGED <<text, res2>>
    /\ UNCHANGED appVars

\* the record at hand: the normalized one once there is one, else the raw one
KernelCalled(name, out) ==
    /\ res2' = [op |-> name, out |-> out]
    /\ pc' = IF pc = "given" THEN "raw " \o name ELSE name
    /\ raw' = (IF pc = "given" THEN givenAfterReading(raw) ELSE raw)
    /\ res' = (IF pc = "given" THEN res
               ELSE [res EXCEPT !.params = givenAfterReading(res.params)])
    /\ UNCHANGED text
    /\ UNCHANGED appVars
KernelReady == pc = "given" \/ (pc = "normalized" /\ res.ok)
KernelRecord == IF pc = "given" THEN raw ELSE res.params

KernelCheck ==
    /\ KernelReady
    /\ KernelCalled("checked", runSafetyChecks(KernelRecord))

\* generateAircraftPart, as far as the solid it builds
KernelBuild ==
    /\ KernelReady
    /\ KernelCalled("built", partGeometry(KernelRecord))

NextKernel == KernelNormalize \/ KernelCheck \/ KernelBuild

SpecKernel == InitKernel /\ [][NextKernel]_vars

-----------------------------------------------------------------------------
(* The airfoil profile, makeNaca4Shape *)

\* Lengths of the profile are counted in units of 1e-5; Math.sqrt, Math.cos
\* and Math.atan are computed to that precision.
\* const eps = 1e-5
EpsUnit == 1
ChordUnit == 100000 * EpsUnit

\* Math.cos(Math.PI * j / 12), j = 0..12
CosTwelfths ==
    <<100000, 96593, 86603, 70711, 50000, 25882, 0,
      -25882, -50000, -70711, -86603, -96593, -100000>>
\* xs[i] = 0.5 * (1 - Math.cos(Math.PI * i / N)), for the N that divide 12
station(i, n) == (ChordUnit - CosTwelfths[i * (12 \div n) + 1]) \div 2

\* the digits a, b, c, d of the code
nacaM(naca) == DigitVal(naca[1])
nacaP(naca) == DigitVal(naca[2])
nacaT(naca) == 10 * DigitVal(naca[3]) + DigitVal(naca[4])

\* 0.2969*sqrt(x) - 0.1260*x - 0.3516*x^2 + 0.2843*x^3 - 0.1036*x^4, in 1e-8
thicknessPoly(x) ==
    2969 * IntSqrt(x * 1000) - 1260 * (x \div 10)
    - 3516 * (((x \div 100) * (x \div 100)) \div 100)
    + 2843 * (((x \div 100) * (x \div 100) * (x \div 100)) \div 100000)
    - 1036 * (((((x \div 100) * (x \div 100)) \div 1000)
               * (((x \div 100) * (x \div 100)) \div 1000)) \div 100)
\* yt = 5 * t * (...)
yt(t, x) == (5 * t * (thicknessPoly(x) \div 1000)) \div 100

\* the camber line and its slope, only when m !== 0 && p !== 0; the slope is
\* the fraction slopeN / slopeD
Cambered(m, p) == m # 0 /\ p # 0
camberSpan(p, x) == IF x < p * 10000 THEN p * p ELSE (10 - p) * (10 - p)
camberArc(p, x) ==
    IF x < p * 10000
    THEN 200 * p * (x \div 100) - (x \div 100) * (x \div 100)
    ELSE 1000000 - 200000 * p + 200 * p * (x \div 100) - (x \div 100) * (x \div 100)
yc(m, p, x) ==
    IF Cambered(m, p) THEN ((m * camberArc(p, x)) \div camberSpan(p, x)) \div 10 ELSE 0
slopeN(m, p, x) == IF Cambered(m, p) THEN (2 * m * (100 * p - (x \div 100))) \div 10 ELSE 0
slopeD(m, p, x) == IF Cambered(m, p) THEN 100 * camberSpan(p, x) ELSE 1
\* th = Math.atan(dyc): Math.sin(th) = sn / hyp, Math.cos(th) = sd / hyp
hyp(sn, sd) == IntSqrt(sn * sn + sd * sd)
alongSin(len, sn, sd) == (len * sn) \div hyp(sn, sd)
alongCos(len, sn, sd) == (len * sd) \div hyp(sn, sd)

\* the four coordinates pushed for the station x, times chord
upperX(m, p, t, x) == x - alongSin(yt(t, x), slopeN(m, p, x), slopeD(m, p, x))
upperY(m, p, t, x) == yc(m, p, x) + alongCos(yt(t, x), slopeN(m, p, x), slopeD(m, p, x))
lowerX(m, p, t, x) == x + alongSin(yt(t, x), slopeN(m, p, x), slopeD(m, p, x))
lowerY(m, p, t, x) == yc(m, p, x) - alongCos(yt(t, x), slopeN(m, p, x), slopeD(m, p, x))
Vector2(x, y) == [x |-> x, y |-> y]
upperSurface(m, p, t, chord, n) ==
    [i \in 1..(n + 1) |->
        Vector2(upperX(m, p, t, station(i - 1, n)) * chord,
                upperY(m, p, t, station(i - 1, n)) * chord)]
lowerSurface(m, p, t, chord, n) ==
    [i \in 1..(n + 1) |->
        Vector2(lowerX(m, p, t, station(i - 1, n)) * chord,
                lowerY(m, p, t, station(i - 1, n)) * chord)]

\* lines 1466-1468: yU[0] = 0; yL[0] = 0; yU[last] = +eps; yL[last] = -eps
closeEnds(surface, teY) ==
    [surface EXCEPT ![1].y = 0, ![Len(surface)].y = teY]

\* lines 1471-1474: the upper surface from the leading to the trailing edge,
\* then the lower surface from index length - 2 down to index 1
RECURSIVE backwards(_, _, _)
backwards(surface, from, to) ==
    IF from < to THEN <<>>
    ELSE <<surface[from]>> \o backwards(surface, from - 1, to)
buildLoop(upper, lower) == upper \o backwards(lower, Len(lower) - 1, 2)

\* THREE.ShapeUtils.area: the signed area of the contour, positive when it
\* runs counter-clockwise; computed on x in thousandths
RECURSIVE crossSum(_, _)
crossSum(pts, i) ==
    IF i > Len(pts) THEN 0
    ELSE ((pts[IF i = 1 THEN Len(pts) ELSE i - 1].x \div 100) * pts[i].y
          - (pts[i].x \div 100) * pts[IF i = 1 THEN Len(pts) ELSE i - 1].y)
         + crossSum(pts, i + 1)
area(pts) == crossSum(pts, 1)
\* THREE.ShapeUtils.isClockWise
isClockWise(pts) == area(pts) < 0
reverse(pts) == [i \in 1..Len(pts) |-> pts[Len(pts) + 1 - i]]

\* line 1477: if (!THREE.ShapeUtils.isClockWise(pts)) pts.reverse();
windLoop(pts) == IF ~isClockWise(pts) THEN reverse(pts) ELSE pts

\* what makeNaca4Shape leaves: the two surfaces after lines 1466-1468, the
\* loop as assembled, and the loop handed to new THREE.Shape
profileOf(upper, lower) ==
    [upper |-> upper, lower |-> lower,
     loop |-> buildLoop(upper, lower),
     shape |-> windLoop(buildLoop(upper, lower))]
makeNaca4Shape(naca, chord, n) ==
    profileOf(closeEnds(upperSurface(nacaM(naca), nacaP(naca), nacaT(naca), chord, n),
                        EpsUnit),
              closeEnds(lowerSurface(nacaM(naca), nacaP(naca), nacaT(naca), chord, n),
                        -EpsUnit))

\* The codes, chords and station counts the profile is drawn for
NacaCodes ==
    {<<"0","0","1","2">>, <<"2","4","1","2">>, <<"4","4","1","5">>,
     <<"0","0","0","0">>, <<"2","4","0","0">>, <<"0","0","0","6">>,
     <<"6","4","0","9">>, <<"2","0","1","2">>, <<"0","4","1","2">>,
     <<"9","9","9","9">>, <<"2","9","2","1">>, <<"9","1","3","0">>}
Chords == {1, 2}
StationCounts == {2, 3, 4, 6}

InitAirfoil ==
    /\ raw \in [naca : NacaCodes, chord : Chords, N : StationCounts]
    /\ text = <<>>
    /\ res = NoResult
    /\ res2 = NoResult
    /\ pc = "code"
    /\ AppInit

DrawProfile ==
    /\ pc = "code"
    /\ isValidNaca4(Str(raw.naca))
    /\ res' = makeNaca4Shape(raw.naca, raw.chord, raw.N)
    /\ pc' = "shape"
    /\ UNCHANGED <<raw, text, res2>>
    /\ UNCHANGED appVars

NextAirfoil == DrawProfile

SpecAirfoil == InitAirfoil /\ [][NextAirfoil]_vars

-----
(* Vocabulary of the properties, stated on the inputs and the outcome *)

WingKeywords       == {K_wing, K_airfoil, K_delta, K_swept}
FuselageKeywords   == {K_fuselage, K_body, K_tube}
StabilizerKeywords == {K_stabilizer, K_tail, K_fin, K_rudder}

HasKeyword(lower, kws) == \E kw \in kws : Includes(lower, kw)
TextHas(t, kws) == HasKeyword(toLowerCase(t), kws)
TextHasNoKeyword(t) ==
    ~TextHas(t, WingKeywords \cup FuselageKeywords \cup StabilizerKeywords)

\* the raw type is missing (absent, null or empty) or is not a string
TypeMissingOrNotString(v) == v.k # "str" \/ v.s = <<>>

\* a string that names one of the three kinds
NamesAKind(v) ==
    /\ v.k = "str"
    /\ \E kw \in {K_wing, K_fuselage, K_stabilizer} : Includes(toLowerCase(v.s), kw)

\* the kind a type string stands for: the first of wing, fuselage, stabilizer it contains
KindOf(v) ==
    IF v.k # "str" THEN "none"
    ELSE IF Includes(v.s, K_wing) THEN "wing"
    ELSE IF Includes(v.s, K_fuselage) THEN "fuselage"
    ELSE IF Includes(v.s, K_stabilizer) THEN "stabilizer"
    ELSE "none"

\* the number a field holds, as a comparison reads it
IsNumber(v) == Number(v).k = "num" /\ v.k \in {"num", "str"}
Positive(v) == NumGreater(Number(v), 0)
NumWithin(x, lo, hi) == x.k = "num" /\ lo <= x.n /\ x.n <= hi
Within(v, lo, hi) == NumWithin(Number(v), lo, hi)

Count(w, msgs) == Cardinality({i \in 1..Len(w) : w[i] \in msgs})

Normalized == pc # "input" /\ res.ok

-----------------------------------------------------------------------------
(* C1: normalize fails if and only if the raw type is missing or not a      *)
(* string and the text holds no wing, fuselage or stabilizer keyword; the   *)
(* failure is the missing-type error, and in every other case, whatever the *)
(* numeric fields are, it returns a record and a warning list.              *)
C1_FailsIffNoTypeAndNoKeyword ==
    pc # "input" =>
        /\ ~res.ok <=> (TypeMissingOrNotString(raw["type"]) /\ TextHasNoKeyword(text))
        /\ ~res.ok => res.error = E_missingType

C1_Witness ==
    /\ pc = "normalized" /\ ~res.ok
    /\ raw["type"] = Num(N(5)) /\ raw["span"] = Str(S_abc)

(* C2: whenever normalize fails with the missing-type error during a        *)
(* generation request, from the generate button or from a preset chip, the  *)
(* request is aborted: currentParams and the current mesh stay as they were *)
(* before the request and the error message is displayed in the output box. *)
Displayed(out, msg) == \E i \in 1..Len(out.body) : out.body[i] = Item("error", msg, NoParams)

C2_MissingTypeAbortsAndIsDisplayed ==
    [][(lastEvent'.threw /\ lastEvent'.error = E_missingType) =>
          /\ currentParams' = currentParams
          /\ currentMesh' = currentMesh
          /\ Displayed(output', E_missingType)]_vars

(* C3: when the raw type is missing, not a string, or a string naming none  *)
(* of wing, fuselage, stabilizer, the kind is resolved from the text: the   *)
(* result's kind is the first keyword family of the text (and the call      *)
(* fails when the text has none); the raw string is never kept.             *)
C3_UnrecognizedTypeResolvedFromText ==
    (pc # "input" /\ ~NamesAKind(raw["type"])) =>
        IF TextHasNoKeyword(text) THEN ~res.ok
        ELSE /\ res.ok
             /\ res.params["type"] =
                    (IF TextHas(text, WingKeywords) THEN Str(K_wing)
                     ELSE IF TextHas(text, FuselageKeywords) THEN Str(K_fuselage)
                     ELSE Str(K_stabilizer))

(* C4: when the kind is inferred from the text, the families are tried in   *)
(* the order wing, fuselage, stabilizer and the first match wins.           *)
FirstFamilyWins(hasWing, hasFuselage, hasStabilizer) ==
    /\ hasWing => res.ok /\ res.params["type"] = Str(K_wing)
    /\ (~hasWing /\ hasFuselage) => res.ok /\ res.params["type"] = Str(K_fuselage)
    /\ (~hasWing /\ ~hasFuselage /\ hasStabilizer)
          => res.ok /\ res.params["type"] = Str(K_stabilizer)

C4_FirstFamilyWins ==
    (pc # "input" /\ TypeMissingOrNotString(raw["type"])) =>
        FirstFamilyWins(TextHas(text, WingKeywords), TextHas(text, FuselageKeywords),
                        TextHas(text, StabilizerKeywords))

C4_Witness ==
    /\ pc = "normalized" /\ TypeMissingOrNotString(raw["type"])
    /\ ~TextHas(text, WingKeywords)
    /\ TextHas(text, FuselageKeywords) /\ TextHas(text, StabilizerKeywords)
    /\ res.params["type"] = Str(K_fuselage)

(* C5: the returned record holds only the fields of its kind: a fuselage    *)
(* none of span, sweep, chord, rootChord, tipChord, naca; a stabilizer none *)
(* of length, diameter, chord, rootChord, tipChord, naca; a wing none of    *)
(* length, diameter, chord.                                                 *)
ForeignFields(kind) ==
    CASE kind = "fuselage"   -> {"span", "sweep", "chord", "rootChord", "tipChord", "naca"}
      [] kind = "stabilizer" -> {"length", "diameter", "chord", "rootChord", "tipChord", "naca"}
      [] kind = "wing"       -> {"length", "diameter", "chord"}
      [] OTHER               -> {}

C5_OnlyFieldsOfKind ==
    Normalized =>
        \A f \in ForeignFields(KindOf(res.params["type"])) : res.params[f] = Undef

(* C6: normalization is idempotent on the record: normalizing the returned  *)
(* record again with the same text returns the same record, field by field. *)
C6_IdempotentRecord ==
    pc = "renormalized" => res2.ok /\ res2.params = res.params

(* C7: normalizing an already normalized record again with the same text    *)
(* produces an empty warning list.                                          *)
C7_RenormalizeNoWarnings ==
    pc = "renormalized" => res2.ok /\ res2.warnings = <<>>

(* C8: every clamp emits exactly one warning of its own, naming the         *)
(* original and the clamped value: a wing span above 100 is clamped to 100  *)
(* with one span-clamp warning, and a wing or stabilizer sweep outside      *)
(* [0,60] is clamped to the nearer bound with one sweep-clamp warning.      *)
SpanClampWarnings == {W_clampWingSpan}
\* the numbers a warning text names: the span-clamp text names the bound only
NumbersNamed(msg) == IF msg = W_clampWingSpan THEN {N(100)} ELSE {}
\* the warnings of validateParams that are not about a sweep clamp
OtherWarnings ==
    {W_typeInferred(Str(k)) : k \in {K_wing, K_fuselage, K_stabilizer}} \cup
    {W_mapWingSpan, W_mapFusLength, W_mapStabSpan, W_defRootChord, W_defTipChord,
     W_defWingSpan, W_clampWingSpan, W_defWingSweep, W_defFusLength, W_defFusDiam,
     W_defStabSpan}
SweepOutOfRange(v) == IsNumber(v) /\ ~Within(v, 0, N(60))

C8_EveryClampWarns ==
    Normalized =>
        /\ (KindOf(res.params["type"]) = "wing" /\ IsNumber(raw["span"])
                /\ Number(raw["span"]).n > N(100))
              => /\ res.params["span"] = Num(N(100))
                 /\ Count(res.warnings, SpanClampWarnings) = 1
                 /\ {Number(raw["span"]).n, N(100)} \subseteq NumbersNamed(W_clampWingSpan)
        /\ (KindOf(res.params["type"]) \in {"wing", "stabilizer"}
                /\ SweepOutOfRange(raw["sweep"]))
              => /\ res.params["sweep"] =
                        (IF Number(raw["sweep"]).n < 0 THEN Num(0) ELSE Num(N(60)))
                 /\ Cardinality({i \in 1..Len(res.warnings) :
                                    res.warnings[i] \notin OtherWarnings}) = 1

(* C9: each application of a default produces exactly one warning: for      *)
(* every field of the defaulting table whose raw value is missing, null,    *)
(* non-numeric or (for a dimension) <= 0 and that holds the default in the  *)
(* result, the warning list has exactly one default warning of that field,  *)
(* and it has none for a field that was not defaulted.                      *)
DefaultTable(kind) ==
    CASE kind = "wing"       -> {"span", "rootChord", "tipChord", "sweep"}
      [] kind = "fuselage"   -> {"length", "diameter"}
      [] kind = "stabilizer" -> {"span", "sweep"}
      [] OTHER               -> {}

\* the default of a field, given the returned record
DefaultOf(kind, f, p) ==
    CASE kind = "wing" /\ f = "span"            -> Num(N(10))
      [] kind = "wing" /\ f = "rootChord"       -> Num(N(2))
      [] kind = "wing" /\ f = "tipChord"        -> Num(Number(p["rootChord"]).n \div 2)
      [] f = "sweep"                            -> Num(0)
      [] kind = "fuselage" /\ f = "length"      -> Num(N(8))
      [] kind = "fuselage" /\ f = "diameter"    -> Num(N(2))
      [] kind = "stabilizer" /\ f = "span"      -> Num(N(4))

\* the default warnings of a field (no message of the source names the
\* stabilizer sweep)
DefaultWarnings(kind, f) ==
    CASE kind = "wing" /\ f = "span"            -> {W_defWingSpan}
      [] kind = "wing" /\ f = "rootChord"       -> {W_defRootChord}
      [] kind = "wing" /\ f = "tipChord"        -> {W_defTipChord}
      [] kind = "wing" /\ f = "sweep"           -> {W_defWingSweep}
      [] kind = "fuselage" /\ f = "length"      -> {W_defFusLength}
      [] kind = "fuselage" /\ f = "diameter"    -> {W_defFusDiam}
      [] kind = "stabilizer" /\ f = "span"      -> {W_defStabSpan}
      [] kind = "stabilizer" /\ f = "sweep"     -> {}

RawUnusable(f) ==
    \/ ~IsNumber(raw[f])
    \/ f # "sweep" /\ Number(raw[f]).n <= 0

Defaulted(kind, f) ==
    RawUnusable(f) /\ res.params[f] = DefaultOf(kind, f, res.params)

C9_OneWarningPerDefault ==
    Normalized =>
        LET kind == KindOf(res.params["type"])
        IN  \A f \in DefaultTable(kind) :
                Count(res.warnings, DefaultWarnings(kind, f)) =
                    (IF Defaulted(kind, f) THEN 1 ELSE 0)

(* C10: every returned record is within the ranges of its kind: a wing has  *)
(* 0 < span <= 100, rootChord > 0, tipChord > 0 and 0 <= sweep <= 60; a     *)
(* fuselage has length > 0 and diameter > 0; a stabilizer has span > 0 and  *)
(* 0 <= sweep <= 60.                                                        *)
C10_RangesOfKind ==
    Normalized =>
        LET p == res.params
            kind == KindOf(p["type"])
        IN  /\ kind = "wing" =>
                /\ Positive(p["span"]) /\ Within(p["span"], 0, N(100))
                /\ Positive(p["rootChord"]) /\ Positive(p["tipChord"])
                /\ p["sweep"].k = "num" /\ Within(p["sweep"], 0, N(60))
            /\ kind = "fuselage" =>
                Positive(p["length"]) /\ Positive(p["diameter"])
            /\ kind = "stabilizer" =>
                /\ Positive(p["span"])
                /\ p["sweep"].k = "num" /\ Within(p["sweep"], 0, N(60))

-----------------------------------------------------------------------------
(* C11: a size of the text is written into the primary dimension (wing and  *)
(* stabilizer span, fuselage length) only when the raw value of that        *)
(* dimension is missing, non-numeric or non-positive: a positive raw value  *)
(* is returned as given (a wing span above 100 clamped to 100) and no       *)
(* size-mapping warning is emitted for it.                                  *)
PrimaryField(kind) == IF kind = "fuselage" THEN "length" ELSE "span"
ClampedFor(kind, n) == IF kind = "wing" THEN Min(n, N(100)) ELSE n
MapWarnings == {W_mapWingSpan, W_mapFusLength, W_mapStabSpan}

ExplicitKept(kind, given, returned, warnings) ==
    Positive(given) =>
        /\ returned = Num(ClampedFor(kind, Number(given).n))
        /\ Count(warnings, MapWarnings) = 0

C11_TextSizeOnlyFillsMissing ==
    (Normalized /\ KindOf(res.params["type"]) # "none") =>
        ExplicitKept(KindOf(res.params["type"]),
                     raw[PrimaryField(KindOf(res.params["type"]))],
                     res.params[PrimaryField(KindOf(res.params["type"]))],
                     res.warnings)

C11_Witness ==
    /\ pc = "normalized" /\ res.ok
    /\ text = T_delta /\ raw["span"] = Num(N(5))
    /\ parseSizeFromText(toLowerCase(text)) = Num(N(150))
    /\ res.params["span"] = Num(N(5))

(* C12: when the primary dimension is missing, it is filled from the first  *)
(* number+unit pair of the text for each of the units mm, cm, m, ft and in, *)
(* converted to meters (mm /1000, cm /100, m x1, ft x0.3048, in x0.0254):   *)
(* a wing described with "500 mm" gets span 0.5.                            *)
\* the units with the ten-thousandths of a meter each is worth
UnitTable ==
    { [u |-> <<"m","m">>, per |-> 10],   [u |-> <<"c","m">>, per |-> 100],
      [u |-> <<"m">>,     per |-> 10000], [u |-> <<"f","t">>, per |-> 3048],
      [u |-> <<"i","n">>, per |-> 254] }

\* the sizes in meters of the whole number that starts at position i of t
\* and is followed by a unit of the table
MeasuresOf(val, units) == { (val * x.per + 5000) \div 10000 : x \in units }
MeasuresAt(t, i) ==
    IF ~IsDigit(t[i]) \/ (i > 1 /\ (IsDigit(t[i - 1]) \/ t[i - 1] = "."))
    THEN {}
    ELSE MeasuresOf(N(DigitsValue(SubSeq(t, i, DigitRunEnd(t, i) - 1))),
                    { x \in UnitTable :
                        UnitAt(t, SpaceRunEnd(t, DigitRunEnd(t, i)), x.u) })
MeasurePositions(t) == { i \in 1..Len(t) : MeasuresAt(t, i) # {} }
FirstMeasureAt(t, P) ==
    IF P = {} THEN {} ELSE MeasuresAt(t, CHOOSE i \in P : \A j \in P : i <= j)
\* the first number+unit pair of the text, in meters (empty when there is none)
FirstMeasure(t) == FirstMeasureAt(t, MeasurePositions(t))

FilledFrom(kind, given, returned, measures) ==
    given \in {Undef, Null} =>
        \A m \in measures : m > 0 => returned = Num(ClampedFor(kind, m))

C12_SizeFilledFromText ==
    (Normalized /\ KindOf(res.params["type"]) # "none") =>
        FilledFrom(KindOf(res.params["type"]),
                   raw[PrimaryField(KindOf(res.params["type"]))],
                   res.params[PrimaryField(KindOf(res.params["type"]))],
                   FirstMeasure(toLowerCase(text)))

(* C13: for a wing whose raw record gives a positive numeric chord, a       *)
(* rootChord or tipChord that the raw record does not give (absent or null) *)
(* is the chord, without a default-chord warning; with neither given the    *)
(* wing has rootChord = tipChord = chord.  An explicit positive numeric     *)
(* rootChord or tipChord is kept for that field.                            *)
NotGiven(v) == v \in {Undef, Null}
ChordFor(given, chord, returned, warnings, msg) ==
    /\ NotGiven(given) => returned = chord /\ Count(warnings, {msg}) = 0
    /\ (given.k = "num" /\ given.n > 0) => returned = given

C13_ChordIsRootAndTip ==
    (/\ Normalized /\ KindOf(res.params["type"]) = "wing"
     /\ raw["chord"].k = "num" /\ raw["chord"].n > 0) =>
        /\ ChordFor(raw["rootChord"], raw["chord"], res.params["rootChord"],
                    res.warnings, W_defRootChord)
        /\ ChordFor(raw["tipChord"], raw["chord"], res.params["tipChord"],
                    res.warnings, W_defTipChord)

-----------------------------------------------------------------------------
(* Vocabulary of the safety properties *)

I_spanHigh  == "CRITICAL: Span exceeds maximum safe limit (A380 = 79.8m)"
I_spanLow   == "CRITICAL: Span too small to be functional"
I_rootChord == "CRITICAL: Root chord too small for structural integrity"
I_sweep     == "CRITICAL: Sweep angle exceeds aerodynamic limits (Concorde = 60)"
I_length    == "CRITICAL: Length exceeds practical limits (747-8 = 76.3m)"
V_sweep     == "WARNING: Very high sweep angle (supersonic aircraft range)"

\* the record was checked and is of the kind (the type names it, in any case)
Checked(kind) ==
    /\ pc = "checked" /\ raw["type"].k = "str"
    /\ KindOf(Str(toLowerCase(raw["type"].s))) = kind

\* the field holds a number (or a numeric string) or is absent
NumberOrAbsent(v) == v = Undef \/ IsNumber(v)

\* the value as the number the bound is compared with
Above(v, c) == IsNumber(v) /\ Number(v).n > c
Below(v, c) == IsNumber(v) /\ Number(v).n < c

Has(list, msg) == Count(list, {msg}) > 0

(* C16: the critical list holds exactly the hard-bound violations of the    *)
(* record's kind.  Wing: a span finding iff span > 80 or span < 2, a root   *)
(* chord finding iff rootChord < 0.5, a sweep finding iff sweep > 60, and   *)
(* nothing else; fuselage: a length finding iff length > 80, and nothing    *)
(* else; stabilizer: the list is empty.  (For fields that hold a number or  *)
(* are absent.)                                                             *)
WingCriticals(p) ==
    (IF Above(p["span"], N(80)) THEN {I_spanHigh} ELSE {})
    \cup (IF Below(p["span"], N(2)) THEN {I_spanLow} ELSE {})
    \cup (IF Below(p["rootChord"], 50) THEN {I_rootChord} ELSE {})
    \cup (IF Above(p["sweep"], N(60)) THEN {I_sweep} ELSE {})
FuselageCriticals(p) == IF Above(p["length"], N(80)) THEN {I_length} ELSE {}

ExactlyThese(list, S) ==
    /\ {list[i] : i \in 1..Len(list)} = S
    /\ Len(list) = Cardinality(S)

C16_CriticalsAreHardBounds ==
    /\ (/\ Checked("wing")
        /\ \A f \in {"span", "rootChord", "sweep"} : NumberOrAbsent(raw[f]))
           => res.ok /\ ExactlyThese(res.issues, WingCriticals(raw))
    /\ (Checked("fuselage") /\ NumberOrAbsent(raw["length"]))
           => res.ok /\ ExactlyThese(res.issues, FuselageCriticals(raw))
    /\ Checked("stabilizer") => res.ok /\ res.issues = <<>>

C16_Witness ==
    /\ Checked("wing")
    /\ raw["span"] = Num(N(90)) /\ raw["rootChord"] = Num(49) /\ raw["sweep"] = Num(N(75))
    /\ res.issues = <<I_spanHigh, I_rootChord, I_sweep>>

(* C17 as claimed: for a wing, a sweep anywhere in the band from 50 to 60   *)
(* yields the sweep warning and no sweep critical finding, a sweep above 60 *)
(* the critical finding and no warning, a sweep below 50 neither; the two   *)
(* never appear in the same verdict.                                        *)
SweepFindings(v, warned, critical) ==
    /\ ~(Has(res.warnings, V_sweep) /\ Has(res.issues, I_sweep))
    /\ warned => Has(res.warnings, V_sweep) /\ ~Has(res.issues, I_sweep)
    /\ critical => Has(res.issues, I_sweep) /\ ~Has(res.warnings, V_sweep)
    /\ (IsNumber(v) /\ ~warned /\ ~critical) =>
           ~Has(res.warnings, V_sweep) /\ ~Has(res.issues, I_sweep)

-----------------------------------------------------------------------------
(* C19 as claimed: the metric formulas and the three edit formulas are      *)
(* mutual inverses: for positive span, rootChord, tipChord, computing S, AR *)
(* and lambda and then applying the AR edit, the lambda edit or the S edit  *)
(* with those values reproduces the original span, rootChord and tipChord.  *)
Square(q) == QMul(q, q)
C19_EditsReproduceExactly ==
    pc = "edited" =>
        /\ res2.span2 = Square(QOf(raw["span"]))
        /\ res2.rootChord = QOf(raw["rootChord"])
        /\ res2.tipChord = QOf(raw["tipChord"])

(* C19 as amended: the edits reproduce the originals up to the rounding of  *)
(* the three metrics to three decimals, which the metric boxes apply (each  *)
(* metric is off by at most 0.0005): exactly when S, AR and lambda have at  *)
(* most three decimals; otherwise the tipChord of the lambda edit is within *)
(* 0.0005 x rootChord, the rootChord and tipChord of the S edit are within  *)
(* the fraction 0.0005/S of the originals, and the square of the span of    *)
(* the AR edit is within 0.0005 x (AR + S) of the original's, AR being the  *)
(* value its box shows.                                                     *)
Delta == Q(5, 10000)
RECURSIVE FracLeq(_, _, _, _)
FracLeq(an, ad, bn, bd) ==
    IF an \div ad # bn \div bd THEN an \div ad < bn \div bd
    ELSE IF an % ad = 0 THEN TRUE
    ELSE IF bn % bd = 0 THEN FALSE
    ELSE FracLeq(bd, bn % bd, ad, an % ad)
Near(a, b, tol) ==
    /\ a.k = "fin" /\ b.k = "fin" /\ tol.k = "fin"
    /\ FracLeq(QAbs(QAdd(a, QNeg(b))).n, QAbs(QAdd(a, QNeg(b))).d, tol.n, tol.d)
ExactArea == planformArea(QOf(raw["span"]), QOf(Plus(raw["rootChord"], raw["tipChord"])))
ExactAspect == aspectOf(QOf(raw["span"]), ExactArea)
ExactTaper == taperRatio(QOf(raw["rootChord"]), QOf(raw["tipChord"]))
Unrounded == res.S = ExactArea /\ res.AR = ExactAspect /\ res.lambda = ExactTaper

WithinRounding(b, cr, ct, S) ==
    /\ res2.edit = "AR" =>
          /\ Near(res2.span2, Square(b), QMul(Delta, QAdd(res.AR, S)))
          /\ res2.rootChord = cr /\ res2.tipChord = ct
    /\ res2.edit = "lambda" =>
          /\ Near(res2.tipChord, ct, QMul(Delta, cr))
          /\ res2.span2 = Square(b) /\ res2.rootChord = cr
    /\ res2.edit = "S" =>
          /\ Near(res2.rootChord, cr, QDiv(QMul(Delta, cr), S))
          /\ Near(res2.tipChord, ct, QDiv(QMul(Delta, ct), S))
          /\ res2.span2 = Square(b)

C19_EditsReproduceWithinRounding ==
    pc = "edited" =>
        /\ WithinRounding(QOf(raw["span"]), QOf(raw["rootChord"]), QOf(raw["tipChord"]),
                          ExactArea)
        /\ Unrounded => C19_EditsReproduceExactly

C19_Witness ==
    /\ pc = "edited" /\ res2.edit = "S"
    /\ ~Unrounded
    /\ res2.rootChord # QOf(raw["rootChord"])

-----------------------------------------------------------------------------
(* C14: an invalid airfoil code never causes an error or a warning and      *)
(* never reaches the airfoil generator.  Loading a record as a wing keeps   *)
(* its code (a string) only when exactly four digits are left after the     *)
(* other characters are taken out, and the NACA box does the same with what *)
(* is typed; neither adds a warning or fails because of the code; and the   *)
(* wing in the scene is built from the stored code when that is a string of *)
(* four digits and from "0012" otherwise.                                   *)
DigitsOf(s) == SelectSeq(s, IsDigit)
CodeKept(v) == IF v.k = "str" /\ Len(DigitsOf(v.s)) = 4 THEN Str(DigitsOf(v.s)) ELSE Null
IsCode(v) == v.k = "str" /\ Len(v.s) = 4 /\ DigitsOf(v.s) = v.s
CodeOrDefault(v) == IF IsCode(v) THEN v.s ELSE <<"0","0","1","2">>
IsWing(params) == params # NoParams /\ params["type"] = Str(K_wing)

\* the outcome of loading r does not depend on its code
SameWithoutCode(with, without) ==
    /\ with.ok = without.ok
    /\ with.warnings = without.warnings

WingBuiltFromCode ==
    IsWing(currentParams) =>
        /\ lastEvent.threw => lastEvent.error = E_missingType
        /\ currentParams["naca"] = Null \/ IsCode(currentParams["naca"])
        /\ currentMesh.solid = "wing"
        /\ currentMesh.naca = CodeOrDefault(currentParams["naca"])

\* loading r with label as a wing keeps the code as said, and the code has no
\* part in whether the load fails or in its warnings
LoadCleansCode(r, v, without) ==
    /\ SameWithoutCode(v, without)
    /\ (v.ok /\ IsWing(v.params)) => v.params["naca"] = CodeKept(r["naca"])
LoadsCleanCode ==
    \A r \in AppRaws, label \in ChipLabels :
        LoadCleansCode(r, validateParams(r, label),
                       validateParams([r EXCEPT !["naca"] = Undef], label))

\* validateParams is a function of its arguments: what it does with the
\* presets is looked at once, before the first event
CodeStored == WingBuiltFromCode /\ (lastEvent = NoEvent => LoadsCleanCode)

CodeEdits ==
    \A typed \in NacaTyped :
        (lastEvent'.name = "nacaEdit" /\ NacaEdit(typed)) =>
            /\ currentParams'["naca"] = CodeKept(Str(typed))
            /\ output' = output
            /\ ~lastEvent'.threw

C14_InvalidCodeNeverReachesGenerator == [](CodeStored) /\ [][CodeEdits]_vars

C14_Witness ==
    /\ lastEvent.name = "nacaEdit"
    /\ IsWing(currentParams)
    /\ currentParams["naca"] = Null
    /\ currentMesh.solid = "wing" /\ currentMesh.naca = <<"0","0","1","2">>

-----------------------------------------------------------------------------
(* C20: aerodynamic metrics are computed and shown only for a wing whose    *)
(* span, rootChord and tipChord are all present and positive: in every      *)
(* reachable state where one of them is missing, zero or negative, or the   *)
(* record is not a wing, no metric is shown.                                *)
PresentAndPositive(v) == v.k = "num" /\ v.n > 0
MetricsDefined(params) ==
    /\ IsWing(params)
    /\ PresentAndPositive(params["span"])
    /\ PresentAndPositive(params["rootChord"])
    /\ PresentAndPositive(params["tipChord"])
MetricsShown == panel.aero /\ aeroInputs = aeroBoxes(currentParams)

C20_MetricsOnlyForPositiveWing == MetricsShown => MetricsDefined(currentParams)

-----------------------------------------------------------------------------
(* C15: no kernel operation mutates the record it is given.  After          *)
(* validateParams, runSafetyChecks, the builders and generateAircraftPart   *)
(* return, every field of the record they were called with has the value it *)
(* had before the call; validateParams works on a copy.                     *)
GivenKept ==
    /\ raw' = raw
    /\ pc = "normalized" => res' = res

-----------------------------------------------------------------------------
(* The airfoil polyline *)

\* the lengths the profile is drawn to
OneChord(chord) == ChordUnit * chord
EpsOf(chord) == EpsUnit * chord
LoopHas(loop, x, y) == \E i \in 1..Len(loop) : loop[i].x = x /\ loop[i].y = y

\* C21: in the polyline of every valid code the leading-edge point has y = 0
\* and the trailing edge is left as two points, the upper one at y = +eps and
\* the lower one at y = -eps, with eps = 1e-5 times the chord.
C21_TrailingEdgeKeptOpen ==
    pc = "shape" =>
        /\ LoopHas(res.shape, 0, 0)
        /\ LoopHas(res.shape, OneChord(raw.chord), EpsOf(raw.chord))
        /\ LoopHas(res.shape, OneChord(raw.chord), -EpsOf(raw.chord))

\* C24: the assembled loop is reversed exactly when it is clockwise, and the
\* loop handed to the extrusion runs counter-clockwise.
C24_ShapeCounterClockwise ==
    pc = "shape" =>
        /\ (res.shape = reverse(res.loop)) <=> isClockWise(res.loop)
        /\ area(res.shape) > 0

-----------------------------------------------------------------------------
(* The solid built for a record *)

\* the record generateAircraftPart was called with, and what it built
Built == pc \in {"built", "raw built"}
BuiltFrom == IF pc = "raw built" THEN raw ELSE res.params
\* the kind string as the claims read it: text, or missing
KindText(params) ==
    IF params["type"].k = "str" THEN toLowerCase(params["type"].s) ELSE <<>>
KindIsText(params) == params["type"].k \in {"str", "undef", "null"}
CodeIsText(params) == params["naca"].k \in {"str", "undef", "null"}
FirstKind(kind) ==
    CASE Includes(kind, K_wing) -> "wing"
      [] ~Includes(kind, K_wing) /\ Includes(kind, K_fuselage) -> "fuselage"
      [] ~Includes(kind, K_wing) /\ ~Includes(kind, K_fuselage)
         /\ Includes(kind, K_stabilizer) -> "stabilizer"
      [] OTHER -> "none"

\* C22: for a record whose kind names none of wing, fuselage, stabilizer, or
\* has no kind, generateAircraftPart builds the 3 x 1 x 6 box; for every other
\* record it builds the solid of the first kind named, in the order wing,
\* fuselage, stabilizer; it fails in neither case.
C22_UnrecognizedKindBuildsBox ==
    (Built /\ KindIsText(BuiltFrom) /\ CodeIsText(BuiltFrom)) =>
        /\ res2.out # GeometryThrown
        /\ FirstKind(KindText(BuiltFrom)) = "none" =>
               /\ res2.out.solid = "box"
               /\ res2.out.width = N(3) /\ res2.out.height = N(1)
               /\ res2.out.depth = N(6)
        /\ FirstKind(KindText(BuiltFrom)) # "none" =>
               res2.out.solid = FirstKind(KindText(BuiltFrom))
\* a record of an unknown kind had the box built, and a record naming the
\* fuselage before the wing had the wing built
C22_Witness ==
    /\ pc = "raw built"
    /\ raw["type"] = Str(S_fuselageWing)
    /\ res2.out.solid = "wing"
C22_WitnessBox ==
    /\ Built /\ BuiltFrom["type"] = Str(S_rocket) /\ res2.out = BoxGeometry

\* C23: in the wing that generateAircraftPart delivers the normals of the
\* root-cap and tip-cap vertices are the ones the override of createWing
\* wrote; no later computation of the normals replaces them.
C23_CapOverrideIsLastWrite ==
    (Built /\ res2.out.solid = "wing") => res2.out.capNormals = CapOverride

-----------------------------------------------------------------------------
(* The four dispatchers on the kind *)

\* a record on which the three normalizations, the three envelope sets and
\* the solids all differ, so that the branch taken shows in the outcome
ProbeOf(type) ==
    [NoParams EXCEPT !["type"] = Str(type), !["span"] = Num(N(150)),
                     !["length"] = Num(N(150)), !["diameter"] = Num(N(2)),
                     !["rootChord"] = Num(N(3)), !["tipChord"] = Num(N(1)),
                     !["sweep"] = Num(N(55))]
ProbeState(type) == [p |-> ProbeOf(type), w |-> <<>>]
NormalizedAs(type) ==
    CASE normalizeByType(ProbeState(type), NaN) = normalizeWing(ProbeState(type), NaN)
             -> "wing"
      [] normalizeByType(ProbeState(type), NaN) = normalizeFuselage(ProbeState(type), NaN)
             -> "fuselage"
      [] normalizeByType(ProbeState(type), NaN) = normalizeStabilizer(ProbeState(type), NaN)
             -> "stabilizer"
      [] OTHER -> "none"
CheckedAs(type) ==
    CASE runSafetyChecks(ProbeOf(type)) = wingChecks(ProbeOf(type)) -> "wing"
      [] runSafetyChecks(ProbeOf(type)) = fuselageChecks(ProbeOf(type)) -> "fuselage"
      [] runSafetyChecks(ProbeOf(type)) = stabilizerChecks(ProbeOf(type)) -> "stabilizer"
      [] OTHER -> "none"
MeshedAs(type) ==
    IF partGeometry(ProbeOf(type)).solid \in {"wing", "fuselage", "stabilizer"}
    THEN partGeometry(ProbeOf(type)).solid ELSE "none"
SlidersAs(type) == buildParamPanel(ProbeOf(type)).sliders
ProbeTellsApart ==
    /\ Cardinality({normalizeWing(ProbeState(K_wing), NaN),
                    normalizeFuselage(ProbeState(K_wing), NaN),
                    normalizeStabilizer(ProbeState(K_wing), NaN)}) = 3
    /\ Cardinality({wingChecks(ProbeOf(K_wing)), fuselageChecks(ProbeOf(K_wing)),
                    stabilizerChecks(ProbeOf(K_wing)), Verdict(<<>>, <<>>)}) = 4

\* C28: for every kind string validateParams returns, the normalization
\* branch, the solid built, the envelope set applied and the slider set shown
\* belong to the same kind.
C28_DispatchersAgree ==
    (pc = "normalized" /\ res.ok) =>
        /\ ProbeTellsApart
        /\ MeshedAs(res.params["type"].s) = NormalizedAs(res.params["type"].s)
        /\ CheckedAs(res.params["type"].s) = NormalizedAs(res.params["type"].s)
        /\ SlidersAs(res.params["type"].s) = NormalizedAs(res.params["type"].s)
\* the same for the kinds that name one of the three
NamedKindsAgree ==
    (pc = "normalized" /\ res.ok /\ FirstKind(res.params["type"].s) # "none") =>
        /\ ProbeTellsApart
        /\ NormalizedAs(res.params["type"].s) = FirstKind(res.params["type"].s)
        /\ MeshedAs(res.params["type"].s) = FirstKind(res.params["type"].s)
        /\ CheckedAs(res.params["type"].s) = FirstKind(res.params["type"].s)
        /\ SlidersAs(res.params["type"].s) = FirstKind(res.params["type"].s)

-----------------------------------------------------------------------------
(* The metric edits on a typed value *)

Entered == QOf(Number(Str(text)))
SpanSquaredBefore == QMul(QOf(raw["span"]), QOf(raw["span"]))
\* the metrics of the record after the edit; the aspect ratio by its square,
\* AR^2 = (span^2 / S)^2 = 4 * span^2 / (rootChord + tipChord)^2
ChordsAfter == QAdd(res2.rootChord, res2.tipChord)
AspectSquaredAfter == QDiv(QMul(Q(4, 1), res2.span2), QMul(ChordsAfter, ChordsAfter))
TaperAfter == QDiv(res2.tipChord, res2.rootChord)
\* S^2 = span^2 * (rootChord + tipChord)^2 / 4
AreaSquaredAfter == QDiv(QMul(res2.span2, QMul(ChordsAfter, ChordsAfter)), Q(4, 1))
EditedMetricIsEntered ==
    CASE res2.edit = "AR" -> AspectSquaredAfter = QMul(Entered, Entered)
      [] res2.edit = "lambda" -> TaperAfter = Entered
      [] res2.edit = "S" -> AreaSquaredAfter = QMul(Entered, Entered)
OnlyStatedFieldsChange ==
    CASE res2.edit = "AR" ->
             /\ res2.rootChord = QOf(raw["rootChord"])
             /\ res2.tipChord = QOf(raw["tipChord"])
      [] res2.edit = "lambda" ->
             /\ res2.span2 = SpanSquaredBefore
             /\ res2.rootChord = QOf(raw["rootChord"])
      [] res2.edit = "S" ->
             /\ res2.span2 = SpanSquaredBefore
             /\ TaperAfter = QDiv(QOf(raw["tipChord"]), QOf(raw["rootChord"]))

\* C27: after a positive value X is committed in the AR, lambda or S box of a
\* wing, the metric recomputed from the record equals X; the AR edit changes
\* only span, the lambda edit only tipChord, the S edit only the two chords
\* and keeps lambda.
C27_EditedMetricTakesValue ==
    pc = "typed" => EditedMetricIsEntered /\ OnlyStatedFieldsChange
\* the same for the lambda and S edits alone
TaperAndAreaTakeValue ==
    (pc = "typed" /\ res2.edit # "AR") => EditedMetricIsEntered /\ OnlyStatedFieldsChange
AspectEditKeepsChords ==
    (pc = "typed" /\ res2.edit = "AR") => OnlyStatedFieldsChange

-----------------------------------------------------------------------------
(* The generate button *)

InFlight == pending.stage # "none"
\* a click on the button is handled only when no request is in flight
ClickFindsNoRequest == lastEvent'.name = "generateClick" => ~InFlight
\* the handler has returned at one of its two early exits
EarlyExit ==
    /\ lastEvent.name = "generateClick"
    /\ output.body # <<>> /\ output.body[Len(output.body)].t = "error"

\* C30: the generate button is disabled exactly while a request started from
\* it is in flight, no second request is started meanwhile, the button is
\* enabled again after every outcome of the request, and the early exits leave
\* it enabled.
C30_ButtonDisabledWhileInFlight ==
    /\ [](InFlight <=> btnDisabled)
    /\ [][ClickFindsNoRequest]_vars
    /\ [](EarlyExit => ~btnDisabled)
    /\ (btnDisabled ~> ~btnDisabled)
\* a request ended in an error and the button is enabled again
C30_Witness ==
    /\ ~btnDisabled /\ ~InFlight
    /\ lastEvent.name = "generate" /\ lastEvent.threw /\ lastEvent.caught

-----------------------------------------------------------------------------
(* The record of a session *)

HasKind(params, kind) ==
    params # NoParams /\ params["type"].k = "str" /\ Includes(params["type"].s, kind)
PositiveNumber(v) == v.k = "num" /\ v.n > 0
SweepCritical == "CRITICAL: Sweep angle exceeds aerodynamic limits (Concorde = 60)"
Shown(list, msg) == \E i \in 1..Len(list) : list[i] = msg

\* C25: whatever requests, presets and edits of the panel a session is made
\* of, the sweep of a wing or stabilizer currentParams lies in [0, 60], and
\* the sweep-critical finding is never shown.
C25_SweepStaysInRange ==
    /\ (HasKind(currentParams, K_wing) \/ HasKind(currentParams, K_stabilizer)) =>
           NumWithin(currentParams["sweep"], 0, N(60))
    /\ ~Shown(safetyChecks.issues, SweepCritical)
\* 200 was committed in the number box of the sweep slider of a wing
C25_Witness ==
    /\ lastEvent.name = "numberCommit"
    /\ HasKind(currentParams, K_wing)
    /\ currentParams["sweep"] = Num(N(60))
    /\ currentMesh.sweep = Num(N(60))

\* C26: whatever requests, presets and edits of the panel a session is made
\* of, a wing currentParams has 0 < span <= 100 and positive rootChord and
\* tipChord.
C26_WingKeepsRanges ==
    HasKind(currentParams, K_wing) =>
        /\ PositiveNumber(currentParams["span"]) /\ currentParams["span"].n <= N(100)
        /\ PositiveNumber(currentParams["rootChord"])
        /\ PositiveNumber(currentParams["tipChord"])
\* the same as long as no metric box has been edited
MetricEdits == {"aspectEdit", "lambdaEdit", "areaEdit"}
RangesKeptWithoutMetricEdits ==
    [](C26_WingKeepsRanges) \/ <>(lastEvent.name \in MetricEdits)

\* C29: after every handler, and whatever request is pending, the mesh in
\* the scene is the one generated from the values currentParams holds, and
\* the verdict in the safety box is the one computed from them.
C29_DisplayFollowsRecord ==
    /\ currentMesh # NoMesh =>
           currentParams # NoParams /\ currentMesh = partGeometry(currentParams)
    /\ safetyChecks.shown = "verdict" =>
           /\ currentParams # NoParams
           /\ safetyChecks = displaySafetyChecks(runSafetyChecks(currentParams))
\* a slider of the wing was dragged while a request was pending
C29_Witness ==
    /\ lastEvent.name = "rangeInput"
    /\ pending.stage = "generate"
    /\ HasKind(currentParams, K_wing)
    /\ currentParams["span"] = Num(50)
    /\ currentMesh.span = Num(50)

====
